---- MODULE Spec2Model ----
(***************************************************************************)
(* A model of ragrep's incremental indexing protocol: the SQLite-backed    *)
(* VectorStore (retrieval/vector_store.py) and the RAGrep orchestrator     *)
(* (core/rag_system.py).                                                   *)
(*                                                                         *)
(* The database is a record of three tables:                               *)
(*   files    : a function  path -> [size, mtime_ns]   (path is the key)   *)
(*   chunks   : the sequence of chunk rows in rowid order (id is the key)  *)
(*   metadata : a function  key -> value               (key is the key)    *)
(***************************************************************************)
EXTENDS Integers, Sequences, FiniteSets, TLC

VARIABLES
    db,      \* the committed content of the SQLite database file
    last,    \* what the last call was given and what it returned or raised
    tx,      \* the open transaction of the connection, statement by statement
    seen,    \* what a reader on another connection last read
    disk     \* the files under the indexed directory

vars == <<db, last, tx, seen, disk>>

---------------------------------------------------------------------------
(* Bounds of the model *)

MaxSize == 2      \* file sizes range over 1..MaxSize
MaxTime == 2      \* clock readings (indexed_at) range over 1..MaxTime

(* The universe the inputs are drawn from *)

PathNames == <<"a.py", "b.py">>          \* in lexicographic order
Paths == {PathNames[i] : i \in 1..Len(PathNames)}
Sizes == 1..MaxSize
Times == 1..MaxTime
MtimeTokens == {1, 2}                    \* two distinct st_mtime_ns values
Roots == {"/r1", "/r2"}
Models == {"m1", "m2"}
ChunkSizes == {2, 3}
ChunkOverlaps == {0, 1}

FileEntries == [path : Paths, size : Sizes, mtime_ns : MtimeTokens]

Configs == [root : Roots, model : Models, chunk_size : ChunkSizes,
            chunk_overlap : ChunkOverlaps]

---------------------------------------------------------------------------
(* Python helpers *)

\* every path of the model, relative to its root, in lexicographic order:
\* the source files next to the database file, a file of its ".legacy"
\* sibling and a file of the model directory
AllPathNames == <<".ragrep.db", ".ragrep.db.legacy/c.py", "a.py", "b.py", "models/m.py">>

\* sorted(paths): the paths of S in lexicographic order
Sorted(S) == SelectSeq(AllPathNames, LAMBDA p : p \in S)

\* set(list)
SetOf(s) == {s[i] : i \in 1..Len(s)}

\* {entry["path"]: (size, mtime_ns) for entry in files}: a later entry of the
\* same path overwrites an earlier one
FileDict(files) ==
    [p \in {files[i].path : i \in 1..Len(files)} |->
        LET i == CHOOSE i \in 1..Len(files) :
                    /\ files[i].path = p
                    /\ \A j \in (i+1)..Len(files) : files[j].path # p
        IN  <<files[i].size, files[i].mtime_ns>>]

\* ", ".join(reasons)
RECURSIVE Join(_)
Join(reasons) ==
    IF Len(reasons) = 0 THEN ""
    ELSE IF Len(reasons) = 1 THEN reasons[1]
    ELSE reasons[1] \o ", " \o Join(Tail(reasons))

\* a catalog as discover_path returns it: one entry per path, sorted by path
Catalogs ==
    UNION {
        { [i \in 1..Cardinality(S) |->
              [path |-> Sorted(S)[i], size |-> f[Sorted(S)[i]][1],
               mtime_ns |-> f[Sorted(S)[i]][2]]] : f \in [S -> Sizes \X MtimeTokens] }
        : S \in SUBSET Paths }

---------------------------------------------------------------------------
(* The store *)

EmptyDb == [files |-> <<>>, chunks |-> <<>>, metadata |-> <<>>]

\* the values of the variables a specification leaves aside
NoTx == [pc |-> "idle"]
NotRead == [read |-> FALSE]
NoDisk == <<>>

\* VectorStore._get_metadata
GetMetadata(store) == store.metadata

\* the db_files dictionary of plan_index_update
DbFiles(store) ==
    [p \in DOMAIN store.files |-> <<store.files[p].size, store.files[p].mtime_ns>>]

\* a full-rebuild plan that lists the paths the store knows as updated
FullRebuildPlan_SplitsKnown(reason, current_files, db_files) ==
    [needs_index |-> TRUE,
     full_rebuild |-> TRUE,
     reason |-> reason,
     new_files |-> Sorted(DOMAIN current_files \ DOMAIN db_files),
     updated_files |-> Sorted(DOMAIN current_files \cap DOMAIN db_files),
     removed_files |-> Sorted(DOMAIN db_files \ DOMAIN current_files)]

FullRebuildPlan(reason, current_files, db_files) ==
    [needs_index |-> TRUE,
     full_rebuild |-> TRUE,
     reason |-> reason,
     new_files |-> Sorted(DOMAIN current_files),
     updated_files |-> <<>>,
     removed_files |-> Sorted(DOMAIN db_files \ DOMAIN current_files)]

\* a planner that compares sizes only
IncrementalPlan_SizeOnly(current_files, db_files) ==
    LET current_paths == DOMAIN current_files
        db_paths == DOMAIN db_files
        new_files == Sorted(current_paths \ db_paths)
        removed_files == Sorted(db_paths \ current_paths)
        updated_files == Sorted({path \in current_paths \cap db_paths :
                                    current_files[path][1] # db_files[path][1]})
        reasons == (IF new_files # <<>> THEN <<"new files detected">> ELSE <<>>)
                   \o (IF updated_files # <<>> THEN <<"updated files detected">> ELSE <<>>)
                   \o (IF removed_files # <<>> THEN <<"files removed">> ELSE <<>>)
    IN  [needs_index |-> reasons # <<>>,
         full_rebuild |-> FALSE,
         reason |-> IF reasons # <<>> THEN Join(reasons) ELSE "index is current",
         new_files |-> new_files,
         updated_files |-> updated_files,
         removed_files |-> removed_files]

\* a planner that forgets to report removals as a reason to index
IncrementalPlan_RemovalSilent(current_files, db_files) ==
    LET current_paths == DOMAIN current_files
        db_paths == DOMAIN db_files
        new_files == Sorted(current_paths \ db_paths)
        removed_files == Sorted(db_paths \ current_paths)
        updated_files == Sorted({path \in current_paths \cap db_paths :
                                    current_files[path] # db_files[path]})
        reasons == (IF new_files # <<>> THEN <<"new files detected">> ELSE <<>>)
                   \o (IF updated_files # <<>> THEN <<"updated files detected">> ELSE <<>>)
    IN  [needs_index |-> reasons # <<>>,
         full_rebuild |-> FALSE,
         reason |-> IF reasons # <<>> THEN Join(reasons) ELSE "index is current",
         new_files |-> new_files,
         updated_files |-> updated_files,
         removed_files |-> removed_files]

IncrementalPlan(current_files, db_files) ==
    LET current_paths == DOMAIN current_files
        db_paths == DOMAIN db_files
        new_files == Sorted(current_paths \ db_paths)
        removed_files == Sorted(db_paths \ current_paths)
        updated_files == Sorted({path \in current_paths \cap db_paths :
                                    current_files[path] # db_files[path]})
        reasons == (IF new_files # <<>> THEN <<"new files detected">> ELSE <<>>)
                   \o (IF updated_files # <<>> THEN <<"updated files detected">> ELSE <<>>)
                   \o (IF removed_files # <<>> THEN <<"files removed">> ELSE <<>>)
    IN  [needs_index |-> reasons # <<>>,
         full_rebuild |-> FALSE,
         reason |-> IF reasons # <<>> THEN Join(reasons) ELSE "index is current",
         new_files |-> new_files,
         updated_files |-> updated_files,
         removed_files |-> removed_files]

\* a planner that tests the chunk overlap before the chunk size
PlanIndexUpdate_OverlapFirst(store, root_path, files, embedding_model, chunk_size, chunk_overlap, force) ==
    LET metadata == GetMetadata(store)
        db_files == DbFiles(store)
        current_files == FileDict(files)
    IN  IF force
          THEN FullRebuildPlan("forced reindex", current_files, db_files)
        ELSE IF "indexed_root" \notin DOMAIN metadata
          THEN FullRebuildPlan("index has not been created yet", current_files, db_files)
        ELSE IF metadata["indexed_root"] # root_path
          THEN FullRebuildPlan("indexed root changed", current_files, db_files)
        ELSE IF metadata["embedding_model"] # embedding_model
          THEN FullRebuildPlan("embedding model changed", current_files, db_files)
        ELSE IF metadata["chunk_overlap"] # ToString(chunk_overlap)
          THEN FullRebuildPlan("chunk overlap changed", current_files, db_files)
        ELSE IF metadata["chunk_size"] # ToString(chunk_size)
          THEN FullRebuildPlan("chunk size changed", current_files, db_files)
        ELSE IncrementalPlan(current_files, db_files)

\* a planner that does not compare the chunk overlap
PlanIndexUpdate_IgnoresOverlap(store, root_path, files, embedding_model, chunk_size, chunk_overlap, force) ==
    LET metadata == GetMetadata(store)
        db_files == DbFiles(store)
        current_files == FileDict(files)
    IN  IF force
          THEN FullRebuildPlan("forced reindex", current_files, db_files)
        ELSE IF "indexed_root" \notin DOMAIN metadata
          THEN FullRebuildPlan("index has not been created yet", current_files, db_files)
        ELSE IF metadata["indexed_root"] # root_path
          THEN FullRebuildPlan("indexed root changed", current_files, db_files)
        ELSE IF metadata["embedding_model"] # embedding_model
          THEN FullRebuildPlan("embedding model changed", current_files, db_files)
        ELSE IF metadata["chunk_size"] # ToString(chunk_size)
          THEN FullRebuildPlan("chunk size changed", current_files, db_files)
        ELSE IncrementalPlan(current_files, db_files)

\* a plan that does not compare the embedding model
PlanIndexUpdate_IgnoresModel(store, root_path, files, embedding_model, chunk_size, chunk_overlap, force) ==
    LET metadata == GetMetadata(store)
        db_files == DbFiles(store)
        current_files == FileDict(files)
    IN  IF force
          THEN FullRebuildPlan("forced reindex", current_files, db_files)
        ELSE IF "indexed_root" \notin DOMAIN metadata
          THEN FullRebuildPlan("index has not been created yet", current_files, db_files)
        ELSE IF metadata["indexed_root"] # root_path
          THEN FullRebuildPlan("indexed root changed", current_files, db_files)
        ELSE IF metadata["chunk_size"] # ToString(chunk_size)
          THEN FullRebuildPlan("chunk size changed", current_files, db_files)
        ELSE IF metadata["chunk_overlap"] # ToString(chunk_overlap)
          THEN FullRebuildPlan("chunk overlap changed", current_files, db_files)
        ELSE IncrementalPlan(current_files, db_files)

\* VectorStore.plan_index_update
PlanIndexUpdate(store, root_path, files, embedding_model, chunk_size, chunk_overlap, force) ==
    LET metadata == GetMetadata(store)
        db_files == DbFiles(store)
        current_files == FileDict(files)
    IN  IF force
          THEN FullRebuildPlan("forced reindex", current_files, db_files)
        ELSE IF "indexed_root" \notin DOMAIN metadata
          THEN FullRebuildPlan("index has not been created yet", current_files, db_files)
        ELSE IF metadata["indexed_root"] # root_path
          THEN FullRebuildPlan("indexed root changed", current_files, db_files)
        ELSE IF metadata["embedding_model"] # embedding_model
          THEN FullRebuildPlan("embedding model changed", current_files, db_files)
        ELSE IF metadata["chunk_size"] # ToString(chunk_size)
          THEN FullRebuildPlan("chunk size changed", current_files, db_files)
        ELSE IF metadata["chunk_overlap"] # ToString(chunk_overlap)
          THEN FullRebuildPlan("chunk overlap changed", current_files, db_files)
        ELSE IncrementalPlan(current_files, db_files)


---------------------------------------------------------------------------
(* SQL statements.  A statement maps a working state of the connection to *)
(* an outcome [ok, state]: ok = FALSE is sqlite3.IntegrityError, and      *)
(* state is then what the transaction holds when the exception is raised  *)
(* (the rows of an executemany before the failing one stay inserted).     *)

Ok(state) == [ok |-> TRUE, state |-> state]
Raise(state) == [ok |-> FALSE, state |-> state]

\* math.sqrt of a sum of squares (the vectors of the model have integer norms)
ISqrt(n) == CHOOSE r \in 0..n : r * r <= n /\ n < (r + 1) * (r + 1)

RECURSIVE SumSquares(_)
SumSquares(vector) ==
    IF vector = <<>> THEN 0 ELSE vector[1] * vector[1] + SumSquares(Tail(vector))

\* _vector_norm
VectorNorm(vector) == ISqrt(SumSquares(vector))

\* the tuple bound to the INSERT INTO chunks statement for (chunk, vector)
ChunkRow(chunk, vector) ==
    [id |-> chunk.id,
     file_path |-> chunk.file_path,
     chunk_index |-> chunk.chunk_index,
     start_char |-> chunk.start_char,
     end_char |-> chunk.end_char,
     text |-> chunk.text,
     embedding |-> vector,
     embedding_dim |-> Len(vector),
     embedding_norm |-> VectorNorm(vector)]

\* FOREIGN KEY(file_path) REFERENCES files(path) ON DELETE CASCADE
CascadeDelete(state) ==
    [state EXCEPT !.chunks = SelectSeq(@, LAMBDA row : row.file_path \in DOMAIN state.files)]

\* DELETE FROM chunks
DeleteAllChunks(state) == [state EXCEPT !.chunks = <<>>]

\* DELETE FROM files
DeleteAllFiles(state) == CascadeDelete([state EXCEPT !.files = <<>>])

\* executemany("DELETE FROM chunks WHERE file_path = ?", paths)
DeleteChunksOf(state, paths) ==
    [state EXCEPT !.chunks = SelectSeq(@, LAMBDA row : row.file_path \notin SetOf(paths))]

\* a DELETE FROM files that matches no row
DeleteFilesOf_KeepsRows(state, paths) == state

\* executemany("DELETE FROM files WHERE path = ?", paths)
DeleteFilesOf(state, paths) ==
    CascadeDelete([state EXCEPT !.files = [p \in DOMAIN @ \ SetOf(paths) |-> @[p]]])

\* executemany("INSERT INTO files ...", entries): path is the PRIMARY KEY
RECURSIVE InsertFiles(_, _)
InsertFiles(state, entries) ==
    IF entries = <<>> THEN Ok(state)
    ELSE LET e == Head(entries)
         IN  IF e.path \in DOMAIN state.files THEN Raise(state)
             ELSE InsertFiles(
                    [state EXCEPT !.files =
                        (e.path :> [size |-> e.size, mtime_ns |-> e.mtime_ns]) @@ @],
                    Tail(entries))

\* an upsert that keeps the row of a path already in the table
RECURSIVE UpsertFiles_KeepsOldSignature(_, _, _)
UpsertFiles_KeepsOldSignature(state, paths, file_lookup) ==
    IF paths = <<>> THEN state
    ELSE LET e == file_lookup[Head(paths)]
         IN  UpsertFiles_KeepsOldSignature(
                [state EXCEPT !.files =
                    @ @@ (Head(paths) :> [size |-> e.size, mtime_ns |-> e.mtime_ns])],
                Tail(paths), file_lookup)

\* executemany("INSERT INTO files ... ON CONFLICT(path) DO UPDATE SET ...")
RECURSIVE UpsertFiles(_, _, _)
UpsertFiles(state, paths, file_lookup) ==
    IF paths = <<>> THEN state
    ELSE LET e == file_lookup[Head(paths)]
         IN  UpsertFiles(
                [state EXCEPT !.files =
                    (Head(paths) :> [size |-> e.size, mtime_ns |-> e.mtime_ns]) @@ @],
                Tail(paths), file_lookup)

\* an insert that pairs the chunks with the vectors taken from the end of
\* the list
RECURSIVE InsertChunks_VectorsFromEnd(_, _, _)
InsertChunks_VectorsFromEnd(state, chunks, embeddings) ==
    IF chunks = <<>> \/ embeddings = <<>> THEN Ok(state)
    ELSE LET row == ChunkRow(Head(chunks), embeddings[Len(embeddings)])
         IN  IF \/ \E i \in 1..Len(state.chunks) : state.chunks[i].id = row.id
                \/ row.file_path \notin DOMAIN state.files
             THEN Raise(state)
             ELSE InsertChunks_VectorsFromEnd(
                      [state EXCEPT !.chunks = Append(@, row)],
                      Tail(chunks), SubSeq(embeddings, 1, Len(embeddings) - 1))


\* an insert on a connection without "PRAGMA foreign_keys = ON": file_path
\* is not checked
RECURSIVE InsertChunks_NoForeignKey(_, _, _)
InsertChunks_NoForeignKey(state, chunks, embeddings) ==
    IF chunks = <<>> \/ embeddings = <<>> THEN Ok(state)
    ELSE LET row == ChunkRow(Head(chunks), Head(embeddings))
         IN  IF \E i \in 1..Len(state.chunks) : state.chunks[i].id = row.id
             THEN Raise(state)
             ELSE InsertChunks_NoForeignKey([state EXCEPT !.chunks = Append(@, row)],
                                            Tail(chunks), Tail(embeddings))

\* executemany("INSERT INTO chunks ...", zip(chunks, embeddings)): id is the
\* PRIMARY KEY and file_path must name a row of files
RECURSIVE InsertChunks(_, _, _)
InsertChunks(state, chunks, embeddings) ==
    IF chunks = <<>> \/ embeddings = <<>> THEN Ok(state)
    ELSE LET row == ChunkRow(Head(chunks), Head(embeddings))
         IN  IF \/ \E i \in 1..Len(state.chunks) : state.chunks[i].id = row.id
                \/ row.file_path \notin DOMAIN state.files
             THEN Raise(state)
             ELSE InsertChunks([state EXCEPT !.chunks = Append(@, row)],
                               Tail(chunks), Tail(embeddings))

\* VectorStore._set_metadata
SetMetadata(state, key, value) == [state EXCEPT !.metadata = (key :> value) @@ @]

\* the five _set_metadata calls that end replace_index and apply_file_updates
WriteIndexMetadata(state, root_path, embedding_model, chunk_size, chunk_overlap, now) ==
    SetMetadata(
      SetMetadata(
        SetMetadata(
          SetMetadata(
            SetMetadata(state, "indexed_root", root_path),
            "embedding_model", embedding_model),
          "chunk_size", ToString(chunk_size)),
        "chunk_overlap", ToString(chunk_overlap)),
      "indexed_at", ToString(now))

\* a connection that commits whatever the block did, exception or not
WithConnection_NoRollback(committed, outcome) == outcome.state

\* "with self.connection:" commits when the block ends normally and rolls
\* the transaction back when it raises
WithConnection(committed, outcome) ==
    IF outcome.ok THEN outcome.state ELSE committed

\* a replace_index that clears the chunks table only
ReplaceIndexBlock_KeepsFiles(state, root_path, files, chunks, embeddings, embedding_model, chunk_size, chunk_overlap, now) ==
    LET s1 == DeleteAllChunks(state)
        fresh == SelectSeq(files, LAMBDA e : e.path \notin DOMAIN s1.files)
        r2 == IF fresh # <<>> THEN InsertFiles(s1, fresh) ELSE Ok(s1)
        r3 == IF ~r2.ok THEN r2
              ELSE IF chunks # <<>> THEN InsertChunks(r2.state, chunks, embeddings)
              ELSE r2
    IN  IF ~r3.ok THEN r3
        ELSE Ok(WriteIndexMetadata(r3.state, root_path, embedding_model,
                                   chunk_size, chunk_overlap, now))

\* the statements inside the "with" block of replace_index
ReplaceIndexBlock(state, root_path, files, chunks, embeddings, embedding_model, chunk_size, chunk_overlap, now) ==
    LET s1 == DeleteAllFiles(DeleteAllChunks(state))
        r2 == IF files # <<>> THEN InsertFiles(s1, files) ELSE Ok(s1)
        r3 == IF ~r2.ok THEN r2
              ELSE IF chunks # <<>> THEN InsertChunks(r2.state, chunks, embeddings)
              ELSE r2
    IN  IF ~r3.ok THEN r3
        ELSE Ok(WriteIndexMetadata(r3.state, root_path, embedding_model,
                                   chunk_size, chunk_overlap, now))

\* a replace_index that does not compare the two lengths: zip pairs the
\* chunks and the vectors as far as both reach
ReplaceIndex_NoCountCheck(store, root_path, files, chunks, embeddings, embedding_model, chunk_size, chunk_overlap, now) ==
    LET outcome == ReplaceIndexBlock(store, root_path, files, chunks, embeddings,
                                     embedding_model, chunk_size, chunk_overlap, now)
    IN  [error |-> IF outcome.ok THEN "" ELSE "IntegrityError",
         db |-> WithConnection(store, outcome),
         dirty |-> outcome.state # store]

\* VectorStore.replace_index: [error, db], error = "" when it returns
ReplaceIndex(store, root_path, files, chunks, embeddings, embedding_model, chunk_size, chunk_overlap, now) ==
    IF Len(chunks) # Len(embeddings)
    THEN [error |-> "ValueError", db |-> store, dirty |-> FALSE]
    ELSE LET outcome == ReplaceIndexBlock(store, root_path, files, chunks, embeddings,
                                          embedding_model, chunk_size, chunk_overlap, now)
         IN  [error |-> IF outcome.ok THEN "" ELSE "IntegrityError",
              db |-> WithConnection(store, outcome),
              dirty |-> outcome.state # store]

\* an apply_file_updates that deletes the chunks of the removed paths only
ApplyFileUpdatesBlock_KeepsOldChunks(state, root_path, file_lookup, changed_paths, chunks, embeddings, removed_files, embedding_model, chunk_size, chunk_overlap, now) ==
    LET s1 == IF removed_files # <<>>
              THEN DeleteFilesOf(DeleteChunksOf(state, removed_files), removed_files)
              ELSE state
        s2 == IF changed_paths # <<>>
              THEN UpsertFiles(s1, changed_paths, file_lookup)
              ELSE s1
        r3 == IF chunks # <<>> THEN InsertChunks(s2, chunks, embeddings) ELSE Ok(s2)
    IN  IF ~r3.ok THEN r3
        ELSE Ok(WriteIndexMetadata(r3.state, root_path, embedding_model,
                                   chunk_size, chunk_overlap, now))

\* the statements inside the "with" block of apply_file_updates
ApplyFileUpdatesBlock(state, root_path, file_lookup, changed_paths, chunks, embeddings, removed_files, embedding_model, chunk_size, chunk_overlap, now) ==
    LET s1 == IF removed_files # <<>>
              THEN DeleteFilesOf(DeleteChunksOf(state, removed_files), removed_files)
              ELSE state
        s2 == IF changed_paths # <<>>
              THEN UpsertFiles(DeleteChunksOf(s1, changed_paths), changed_paths, file_lookup)
              ELSE s1
        r3 == IF chunks # <<>> THEN InsertChunks(s2, chunks, embeddings) ELSE Ok(s2)
    IN  IF ~r3.ok THEN r3
        ELSE Ok(WriteIndexMetadata(r3.state, root_path, embedding_model,
                                   chunk_size, chunk_overlap, now))

\* {entry["path"]: entry for entry in all_files}
FileLookup(all_files) ==
    [p \in {all_files[i].path : i \in 1..Len(all_files)} |->
        all_files[CHOOSE i \in 1..Len(all_files) :
                    /\ all_files[i].path = p
                    /\ \A j \in (i+1)..Len(all_files) : all_files[j].path # p]]

\* an apply_file_updates that skips the changed paths that have no record
ApplyFileUpdates_SkipsMissing(store, root_path, all_files, chunks, embeddings, new_files, updated_files, removed_files, embedding_model, chunk_size, chunk_overlap, now) ==
    LET file_lookup == FileLookup(all_files)
        changed_paths == SelectSeq(Sorted(SetOf(new_files \o updated_files)),
                                   LAMBDA path : path \in DOMAIN file_lookup)
    IN  IF Len(chunks) # Len(embeddings)
          THEN [error |-> "ValueError", db |-> store, dirty |-> FALSE]
        ELSE LET outcome == ApplyFileUpdatesBlock(store, root_path, file_lookup,
                                changed_paths, chunks, embeddings, removed_files,
                                embedding_model, chunk_size, chunk_overlap, now)
             IN  [error |-> IF outcome.ok THEN "" ELSE "IntegrityError",
                  db |-> WithConnection(store, outcome),
                  dirty |-> outcome.state # store]

\* VectorStore.apply_file_updates: [error, db], error = "" when it returns
ApplyFileUpdates(store, root_path, all_files, chunks, embeddings, new_files, updated_files, removed_files, embedding_model, chunk_size, chunk_overlap, now) ==
    LET changed_paths == Sorted(SetOf(new_files \o updated_files))
        file_lookup == FileLookup(all_files)
        missing_paths == SelectSeq(changed_paths, LAMBDA path : path \notin DOMAIN file_lookup)
    IN  IF Len(chunks) # Len(embeddings)
          THEN [error |-> "ValueError", db |-> store, dirty |-> FALSE]
        ELSE IF missing_paths # <<>>
          THEN [error |-> "ValueError", db |-> store, dirty |-> FALSE]
        ELSE LET outcome == ApplyFileUpdatesBlock(store, root_path, file_lookup,
                                changed_paths, chunks, embeddings, removed_files,
                                embedding_model, chunk_size, chunk_overlap, now)
             IN  [error |-> IF outcome.ok THEN "" ELSE "IntegrityError",
                  db |-> WithConnection(store, outcome),
                  dirty |-> outcome.state # store]

---------------------------------------------------------------------------
(* The planner on its own: Init draws a store and the arguments of one    *)
(* plan_index_update call, CallPlan applies the function.                 *)

\* _set_metadata of the five keys, as replace_index and apply_file_updates do
MetadataOf(c, now) ==
    [k \in {"indexed_root", "embedding_model", "chunk_size", "chunk_overlap", "indexed_at"} |->
        CASE k = "indexed_root" -> c.root
          [] k = "embedding_model" -> c.model
          [] k = "chunk_size" -> ToString(c.chunk_size)
          [] k = "chunk_overlap" -> ToString(c.chunk_overlap)
          [] k = "indexed_at" -> ToString(now)]

\* the files table holding a catalog
FilesTable(catalog) ==
    [p \in {catalog[i].path : i \in 1..Len(catalog)} |->
        LET e == catalog[CHOOSE i \in 1..Len(catalog) : catalog[i].path = p]
        IN  [size |-> e.size, mtime_ns |-> e.mtime_ns]]

\* the configurations a caller passes in the planner-only specification
PlanArgConfigs ==
    { [root |-> "/r1", model |-> "m1", chunk_size |-> 3, chunk_overlap |-> 1],
      [root |-> "/r2", model |-> "m2", chunk_size |-> 2, chunk_overlap |-> 0] }

InitPlan ==
    /\ \/ db = EmptyDb
       \/ \E c \in Configs, catalog \in Catalogs :
             db = [files |-> FilesTable(catalog), chunks |-> <<>>,
                   metadata |-> MetadataOf(c, 1)]
    /\ \E c \in PlanArgConfigs, files \in Catalogs, force \in BOOLEAN :
          last = [op |-> "args", cfg |-> c, files |-> files, force |-> force]
    /\ tx = NoTx /\ seen = NotRead /\ disk = NoDisk

CallPlan ==
    /\ last.op = "args"
    /\ last' = [op |-> "plan_index_update", cfg |-> last.cfg, files |-> last.files,
                force |-> last.force,
                plan |-> PlanIndexUpdate(db, last.cfg.root, last.files, last.cfg.model,
                                         last.cfg.chunk_size, last.cfg.chunk_overlap,
                                         last.force)]
    /\ UNCHANGED <<db, tx, seen, disk>>

NextPlan == CallPlan

SpecPlan == InitPlan /\ [][NextPlan]_vars

\* a get_stats that tests the parsed number where the code tests the stored
\* string, and so reports an overlap of 0 as None
GetStats_ZeroAsNone(store) ==
    LET metadata == store.metadata
        Get(key) == IF key \in DOMAIN metadata THEN metadata[key] ELSE "None"
    IN  [total_documents |-> Len(store.chunks),
         total_chunks |-> Len(store.chunks),
         total_files |-> Cardinality(DOMAIN store.files),
         embedding_model |-> Get("embedding_model"),
         indexed_root |-> Get("indexed_root"),
         indexed_at |-> Get("indexed_at"),
         chunk_size |-> IF Get("chunk_size") \notin {"None", "", "0"}
                        THEN (CHOOSE n \in 0..99 : ToString(n) = Get("chunk_size"))
                        ELSE "None",
         chunk_overlap |-> IF Get("chunk_overlap") \notin {"None", "", "0"}
                           THEN (CHOOSE n \in 0..99 : ToString(n) = Get("chunk_overlap"))
                           ELSE "None"]

\* int(text) of a decimal string
ParseInt(text) == CHOOSE n \in 0..99 : ToString(n) = text

\* VectorStore.get_stats ("None" stands for Python's None)
GetStats(store) ==
    LET metadata == GetMetadata(store)
        Get(key) == IF key \in DOMAIN metadata THEN metadata[key] ELSE "None"
    IN  [total_documents |-> Len(store.chunks),
         total_chunks |-> Len(store.chunks),
         total_files |-> Cardinality(DOMAIN store.files),
         embedding_model |-> Get("embedding_model"),
         indexed_root |-> Get("indexed_root"),
         indexed_at |-> Get("indexed_at"),
         chunk_size |-> IF Get("chunk_size") \notin {"None", ""}
                        THEN ParseInt(Get("chunk_size")) ELSE "None",
         chunk_overlap |-> IF Get("chunk_overlap") \notin {"None", ""}
                           THEN ParseInt(Get("chunk_overlap")) ELSE "None"]

---------------------------------------------------------------------------
(* VectorStore.search.  The vectors of the model have integer components  *)
(* and integer norms, so a score is an exact fraction [num, den] in       *)
(* lowest terms with den > 0.                                             *)

Abs(n) == IF n < 0 THEN 0 - n ELSE n

RECURSIVE GCD(_, _)
GCD(a, b) == IF b = 0 THEN a ELSE GCD(b, a % b)

\* the quotient n / d of two numbers, d > 0
Quotient(n, d) ==
    LET g == GCD(Abs(n), d)
    IN  [num |-> n \div g, den |-> d \div g]

\* 1.0 - score
OneMinus(score) == [num |-> score.den - score.num, den |-> score.den]

\* a < b for two scores
ScoreLess(a, b) == a.num * b.den < b.num * a.den

\* the loop "for lhs, rhs in zip(vector, query_values): dot += lhs * rhs"
RECURSIVE Dot(_, _)
Dot(vector, query_values) ==
    IF vector = <<>> \/ query_values = <<>> THEN 0
    ELSE vector[1] * query_values[1] + Dot(Tail(vector), Tail(query_values))

\* a search that scores the rows of every dimension
Scored_AnyDimension(row, query_values) ==
    row.embedding_norm # 0

\* the rows search does not skip: the dimension is the query's and the
\* recorded norm is not zero
Scored(row, query_values) ==
    /\ row.embedding_dim = Len(query_values)
    /\ row.embedding_norm # 0

\* a score that is not divided by the recorded norm of the row
Match_ForgetsStoredNorm(row, query_values, query_norm) ==
    LET score == Quotient(Dot(row.embedding, query_values), query_norm)
    IN  [id |-> row.id, text |-> row.text, score |-> score, distance |-> OneMinus(score)]

\* the dictionary search appends for a row
Match(row, query_values, query_norm) ==
    LET score == Quotient(Dot(row.embedding, query_values), query_norm * row.embedding_norm)
    IN  [id |-> row.id, text |-> row.text, score |-> score, distance |-> OneMinus(score)]

\* a sort that puts an item before the items of the same score
InsertByScore_BeforeEqual(sorted, item) ==
    SelectSeq(sorted, LAMBDA e : ScoreLess(item.score, e.score))
    \o <<item>>
    \o SelectSeq(sorted, LAMBDA e : ~ScoreLess(item.score, e.score))

\* one step of the stable sort by descending score: the item goes after
\* every item whose score is not lower
InsertByScore(sorted, item) ==
    SelectSeq(sorted, LAMBDA e : ~ScoreLess(e.score, item.score))
    \o <<item>>
    \o SelectSeq(sorted, LAMBDA e : ScoreLess(e.score, item.score))

\* matches.sort(key=lambda item: item["score"], reverse=True)
RECURSIVE SortByScore(_)
SortByScore(matches) ==
    IF matches = <<>> THEN <<>>
    ELSE InsertByScore(SortByScore(SubSeq(matches, 1, Len(matches) - 1)),
                       matches[Len(matches)])

\* matches[-limit:]
Truncate_Tail(matches, limit) ==
    SubSeq(matches, IF Len(matches) > limit THEN Len(matches) - limit + 1 ELSE 1, Len(matches))

\* matches[:limit] for limit > 0
Truncate(matches, limit) ==
    SubSeq(matches, 1, IF limit < Len(matches) THEN limit ELSE Len(matches))

\* a search that takes the norm of a zero query for 1 instead of returning
Search_ZeroNormAsOne(store, query_embedding, limit) ==
    IF limit <= 0 THEN <<>>
    ELSE LET query_norm == IF VectorNorm(query_embedding) = 0 THEN 1
                           ELSE VectorNorm(query_embedding)
             rows == SelectSeq(store.chunks, LAMBDA row : Scored(row, query_embedding))
             matches == [i \in 1..Len(rows) |->
                            Match(rows[i], query_embedding, query_norm)]
         IN  Truncate(SortByScore(matches), limit)

\* a search that takes a limit of 0 or less for "no limit"
Search_ZeroMeansAll(store, query_embedding, limit) ==
    LET query_norm == VectorNorm(query_embedding)
    IN  IF query_norm = 0 THEN <<>>
        ELSE LET rows == SelectSeq(store.chunks,
                                   LAMBDA row : Scored(row, query_embedding))
                 matches == [i \in 1..Len(rows) |->
                                Match(rows[i], query_embedding, query_norm)]
             IN  Truncate(SortByScore(matches),
                          IF limit <= 0 THEN Len(matches) ELSE limit)

\* a search that takes a zero or missing norm as 1 and scores the row
Search_ZeroStoredNormAsOne(store, query_embedding, limit) ==
    IF limit <= 0 THEN <<>>
    ELSE LET query_norm == VectorNorm(query_embedding)
         IN  IF query_norm = 0 THEN <<>>
             ELSE LET rows == SelectSeq(store.chunks,
                                        LAMBDA row : row.embedding_dim = Len(query_embedding))
                      matches == [i \in 1..Len(rows) |->
                                     Match([rows[i] EXCEPT !.embedding_norm =
                                                IF @ = 0 THEN 1 ELSE @],
                                           query_embedding, query_norm)]
                  IN  Truncate(SortByScore(matches), limit)

\* VectorStore.search
Search(store, query_embedding, limit) ==
    IF limit <= 0 THEN <<>>
    ELSE LET query_norm == VectorNorm(query_embedding)
         IN  IF query_norm = 0 THEN <<>>
             ELSE LET rows == SelectSeq(store.chunks,
                                        LAMBDA row : Scored(row, query_embedding))
                      matches == [i \in 1..Len(rows) |->
                                     Match(rows[i], query_embedding, query_norm)]
                  IN  Truncate(SortByScore(matches), limit)

\* VectorStore.get_indexed_root ("None" stands for Python's None)
GetIndexedRoot(store) ==
    IF "indexed_root" \in DOMAIN GetMetadata(store)
    THEN GetMetadata(store)["indexed_root"] ELSE "None"

---------------------------------------------------------------------------
(* The store driven directly through its API: a caller passes arbitrary   *)
(* arguments to replace_index and apply_file_updates.  Each call is one   *)
(* action; it leaves in "last" the arguments, the database as it was      *)
(* before the call ("before") and the exception raised ("error", "" when  *)
(* the method returned).  Return hands control back to the caller.        *)

\* chunk dictionaries handed to the store
StoreChunkPool ==
    { [id |-> "a.py:0", file_path |-> "a.py", chunk_index |-> 0, start_char |-> 0,
       end_char |-> 2, text |-> <<"a", "b">>],
      [id |-> "a.py:1", file_path |-> "a.py", chunk_index |-> 1, start_char |-> 1,
       end_char |-> 3, text |-> <<"b", "c">>],
      [id |-> "b.py:0", file_path |-> "b.py", chunk_index |-> 0, start_char |-> 0,
       end_char |-> 2, text |-> <<"x", "y">>] }

\* the chunk lists of a call: up to two chunks
StoreChunkLists == UNION { [1..n -> StoreChunkPool] : n \in 0..2 }

\* the embedder of the callers of the store: one vector per chunk text
StoreEmbed(text) ==
    CASE text = <<"a", "b">> -> <<1, 0>>
      [] text = <<"b", "c">> -> <<0, 1>>
      [] text = <<"x", "y">> -> <<3, 4>>

\* the embedding lists of a call: the vectors of the chunks in the order of
\* the chunks, the same list with one vector too many, and the same list
\* with one vector too few
StoreEmbeddingLists(chunks) ==
    { [i \in 1..Len(chunks) |-> StoreEmbed(chunks[i].text)],
      [i \in 1..(Len(chunks) + 1) |->
          IF i <= Len(chunks) THEN StoreEmbed(chunks[i].text) ELSE <<1, 0>>] }
    \cup (IF chunks = <<>> THEN {}
          ELSE { [i \in 1..(Len(chunks) - 1) |-> StoreEmbed(chunks[i].text)] })

\* catalogs handed to the store
StoreCatalogs ==
    { c \in Catalogs : \A i \in 1..Len(c) :
        /\ c[i].mtime_ns = 1
        /\ c[i].path # "a.py" => c[i].size = 1 }

\* the clock reading of a call (datetime.now)
StoreClock == {1}

\* the new_files, updated_files and removed_files of a call: each path is in
\* at most one of the three lists
PathRoles == [Paths -> {"", "new", "updated", "removed"}]
PathsOfRole(roles, role) == Sorted({p \in Paths : roles[p] = role})

Idle == last.op = "idle"

InitStore ==
    /\ db = EmptyDb
    /\ last = [op |-> "idle"]
    /\ tx = NoTx /\ seen = NotRead /\ disk = NoDisk

CallReplaceIndex ==
    /\ Idle
    /\ \E c \in PlanArgConfigs, files \in StoreCatalogs, chunks \in StoreChunkLists, now \in StoreClock :
         \E embeddings \in StoreEmbeddingLists(chunks) :
            LET r == ReplaceIndex(db, c.root, files, chunks, embeddings, c.model,
                                  c.chunk_size, c.chunk_overlap, now)
            IN  /\ db' = r.db
                /\ last' = [op |-> "replace_index", cfg |-> c, files |-> files,
                            chunks |-> chunks, embeddings |-> embeddings, now |-> now,
                            before |-> db, error |-> r.error, dirty |-> r.dirty]
                /\ UNCHANGED <<tx, seen, disk>>

CallApplyFileUpdates ==
    /\ Idle
    /\ \E c \in PlanArgConfigs, all_files \in StoreCatalogs, chunks \in StoreChunkLists, now \in StoreClock :
         \E embeddings \in StoreEmbeddingLists(chunks), roles \in PathRoles :
            LET new_files == PathsOfRole(roles, "new")
                updated_files == PathsOfRole(roles, "updated")
                removed_files == PathsOfRole(roles, "removed")
                r == ApplyFileUpdates(db, c.root, all_files, chunks, embeddings, new_files,
                                      updated_files, removed_files, c.model, c.chunk_size,
                                      c.chunk_overlap, now)
            IN  /\ db' = r.db
                /\ last' = [op |-> "apply_file_updates", cfg |-> c, all_files |-> all_files,
                            chunks |-> chunks, embeddings |-> embeddings,
                            new_files |-> new_files, updated_files |-> updated_files,
                            removed_files |-> removed_files, now |-> now,
                            before |-> db, error |-> r.error, dirty |-> r.dirty]
                /\ UNCHANGED <<tx, seen, disk>>

Return ==
    /\ ~Idle
    /\ last' = [op |-> "idle"]
    /\ UNCHANGED <<db, tx, seen, disk>>

NextStore ==
    \/ CallReplaceIndex
    \/ CallApplyFileUpdates
    \/ Return

SpecStore == InitStore /\ [][NextStore]_vars

---------------------------------------------------------------------------
(* search on its own: Init draws a store filled by one replace_index call *)
(* and the arguments of one search call, CallSearch applies the method.   *)

MaxLimit == 4     \* the limit of a search ranges over -1..MaxLimit

\* the vectors stored with the chunks: two parallel ones, one of norm 5,
\* one of norm 0 and one of another dimension
SearchVectors == { <<1, 0>>, <<2, 0>>, <<0, 1>>, <<3, 4>>, <<0, 0>>, <<1, 0, 0>> }

\* the query vectors
SearchQueries == { <<1, 0>>, <<0, 1>>, <<3, 4>>, <<0, 0>>, <<>>, <<0, 0, 1>> }

SearchLimits == (0 - 1)..MaxLimit

\* lists of chunks with distinct ids, in every order
SearchChunkLists ==
    { chunks \in UNION { [1..n -> StoreChunkPool] : n \in 0..3 } :
        \A i, j \in 1..Len(chunks) : i # j => chunks[i].id # chunks[j].id }

\* the catalog of the replace_index call that filled the store
SearchCatalog ==
    << [path |-> "a.py", size |-> 1, mtime_ns |-> 1],
       [path |-> "b.py", size |-> 1, mtime_ns |-> 1] >>

InitSearch ==
    /\ \E chunks \in SearchChunkLists :
         \E embeddings \in [1..Len(chunks) -> SearchVectors] :
            db = ReplaceIndex(EmptyDb, "/r1", SearchCatalog, chunks, embeddings,
                              "m1", 2, 1, 1).db
    /\ \E query \in SearchQueries, limit \in SearchLimits :
          last = [op |-> "args", query |-> query, limit |-> limit]
    /\ tx = NoTx /\ seen = NotRead /\ disk = NoDisk

CallSearch ==
    /\ last.op = "args"
    /\ last' = [op |-> "search", query |-> last.query, limit |-> last.limit,
                before |-> db, matches |-> Search(db, last.query, last.limit)]
    /\ UNCHANGED <<db, tx, seen, disk>>

NextSearch == CallSearch

SpecSearch == InitSearch /\ [][NextSearch]_vars

---------------------------------------------------------------------------
(* The two mutating calls statement by statement, with a reader on        *)
(* another connection.  tx.work is what the writing connection holds,     *)
(* db what is committed; tx.pc is the next statement of the call.         *)

\* the arguments of the calls in this specification
TxChunkPool == { c \in StoreChunkPool : c.chunk_index = 0 }
TxChunkLists == UNION { [1..n -> TxChunkPool] : n \in 0..2 }
TxCatalogs == { c \in StoreCatalogs : \A i \in 1..Len(c) : c[i].size = 1 }
TxEmbeddings(chunks) == [i \in 1..Len(chunks) |-> StoreEmbed(chunks[i].text)]

\* a connection in autocommit mode: every statement is committed at once
AfterStatement_Autocommit(committed, work) == work

\* what is committed after a statement of an open transaction: sqlite3
\* opens the transaction before the first DELETE and nothing reaches the
\* database file before COMMIT
AfterStatement(committed, work) == committed

\* the connection has run a statement with the given outcome
Advance(next_pc, outcome) ==
    /\ tx' = [tx EXCEPT !.work = outcome.state, !.ok = outcome.ok,
                        !.pc = IF outcome.ok THEN next_pc ELSE "exit"]
    /\ db' = AfterStatement(db, outcome.state)
    /\ UNCHANGED <<last, seen, disk>>

InitTx ==
    /\ db = EmptyDb
    /\ last = [op |-> "idle"]
    /\ tx = NoTx /\ seen = NotRead /\ disk = NoDisk

\* replace_index is called: the count check passes, the "with" block starts
TxBeginReplace ==
    /\ tx.pc = "idle"
    /\ \E c \in PlanArgConfigs, files \in TxCatalogs, chunks \in TxChunkLists, now \in StoreClock :
          tx' = [pc |-> "delete_chunks", op |-> "replace_index", cfg |-> c,
                 files |-> files, chunks |-> chunks, embeddings |-> TxEmbeddings(chunks),
                 new_files |-> <<>>, updated_files |-> <<>>, removed_files |-> <<>>,
                 now |-> now, before |-> db, work |-> db, ok |-> TRUE]
    /\ seen' = NotRead
    /\ UNCHANGED <<db, last, disk>>

TxDeleteChunks ==
    /\ tx.pc = "delete_chunks"
    /\ Advance("delete_files", Ok(DeleteAllChunks(tx.work)))

TxDeleteFiles ==
    /\ tx.pc = "delete_files"
    /\ Advance("insert_files", Ok(DeleteAllFiles(tx.work)))

TxInsertFiles ==
    /\ tx.pc = "insert_files"
    /\ Advance("insert_chunks",
               IF tx.files # <<>> THEN InsertFiles(tx.work, tx.files) ELSE Ok(tx.work))

\* apply_file_updates is called: a changed path without a file record
\* raises before the "with" block, otherwise the block starts
TxBeginApply ==
    /\ tx.pc = "idle"
    /\ \E c \in PlanArgConfigs, all_files \in TxCatalogs, chunks \in TxChunkLists, now \in StoreClock, roles \in PathRoles :
          LET changed == PathsOfRole(roles, "new") \o PathsOfRole(roles, "updated")
              missing == SetOf(changed) \ DOMAIN FileLookup(all_files)
          IN  tx' = [pc |-> IF missing # {} THEN "done" ELSE "delete_removed",
                     op |-> "apply_file_updates", cfg |-> c,
                     files |-> all_files, chunks |-> chunks,
                     embeddings |-> TxEmbeddings(chunks),
                     new_files |-> PathsOfRole(roles, "new"),
                     updated_files |-> PathsOfRole(roles, "updated"),
                     removed_files |-> PathsOfRole(roles, "removed"),
                     now |-> now, before |-> db, work |-> db, ok |-> missing = {}]
    /\ seen' = NotRead
    /\ UNCHANGED <<db, last, disk>>

TxDeleteRemoved ==
    /\ tx.pc = "delete_removed"
    /\ Advance("replace_changed",
               Ok(IF tx.removed_files # <<>>
                  THEN DeleteFilesOf(DeleteChunksOf(tx.work, tx.removed_files), tx.removed_files)
                  ELSE tx.work))

TxReplaceChanged ==
    /\ tx.pc = "replace_changed"
    /\ LET changed_paths == Sorted(SetOf(tx.new_files \o tx.updated_files))
       IN  Advance("insert_chunks",
                   Ok(IF changed_paths # <<>>
                      THEN UpsertFiles(DeleteChunksOf(tx.work, changed_paths), changed_paths,
                                       FileLookup(tx.files))
                      ELSE tx.work))

TxInsertChunks ==
    /\ tx.pc = "insert_chunks"
    /\ Advance("set_metadata",
               IF tx.chunks # <<>> THEN InsertChunks(tx.work, tx.chunks, tx.embeddings)
               ELSE Ok(tx.work))

TxSetMetadata ==
    /\ tx.pc = "set_metadata"
    /\ Advance("exit", Ok(WriteIndexMetadata(tx.work, tx.cfg.root, tx.cfg.model,
                                             tx.cfg.chunk_size, tx.cfg.chunk_overlap, tx.now)))

\* the "with" block is left: COMMIT, or ROLLBACK when a statement raised
TxExit ==
    /\ tx.pc = "exit"
    /\ db' = WithConnection(db, [ok |-> tx.ok, state |-> tx.work])
    /\ tx' = [tx EXCEPT !.pc = "done"]
    /\ UNCHANGED <<last, seen, disk>>

TxReturn ==
    /\ tx.pc = "done"
    /\ tx' = NoTx
    /\ seen' = NotRead
    /\ UNCHANGED <<db, last, disk>>

\* a reader on another connection reads the three tables during the call
Read ==
    /\ tx.pc # "idle"
    /\ seen' = [read |-> TRUE, db |-> db]
    /\ UNCHANGED <<db, last, tx, disk>>

NextTx ==
    \/ TxBeginReplace
    \/ TxDeleteChunks
    \/ TxDeleteFiles
    \/ TxInsertFiles
    \/ TxBeginApply
    \/ TxDeleteRemoved
    \/ TxReplaceChanged
    \/ TxInsertChunks
    \/ TxSetMetadata
    \/ TxExit
    \/ TxReturn
    \/ Read

SpecTx == InitTx /\ [][NextTx]_vars

---------------------------------------------------------------------------
(* RAGrep.index over a directory that changes between calls.  The files   *)
(* of the directory "/r1" are the variable disk; "/r2" is a second        *)
(* directory whose files never change.  One Index action is one whole     *)
(* index call: scan, plan, chunk, embed, store.                           *)

\* the configurations a RAGrep instance is constructed with
RagConfigs ==
    { [model |-> "m1", chunk_size |-> 2, chunk_overlap |-> 1],
      [model |-> "m2", chunk_size |-> 2, chunk_overlap |-> 1],
      [model |-> "m1", chunk_size |-> 3, chunk_overlap |-> 1],
      [model |-> "m1", chunk_size |-> 2, chunk_overlap |-> 0] }

\* the stat() results a file of the directory can have
DiskEntries(p) ==
    { e \in [size : Sizes, mtime_ns : MtimeTokens] : p # "a.py" => e.size = 1 }

\* the files of the second directory
OtherDir == ("b.py" :> [size |-> 1, mtime_ns |-> 1])

\* the files under a path
DirOf(dir, path) == IF path = "/r1" THEN dir ELSE OtherDir

\* the text of a file: size characters, rewritten whenever the file is
\* modified; a file written at time 0 holds bytes that are not UTF-8, and a
\* file rewritten while its size and time were kept holds the text of the
\* rewrite
Content(entry) ==
    [i \in 1..entry.size |-> IF "text" \in DOMAIN entry THEN entry.text
                             ELSE IF entry.mtime_ns = 0 THEN "?"
                             ELSE IF entry.mtime_ns = 1 THEN "x" ELSE "y"]

\* a load that decodes with errors="replace" and so never raises
LoadDocument_ReplacesErrors(entry) == [error |-> "", text |-> Content(entry)]

\* DocumentProcessor.load_document: open(file_path, 'r', encoding='utf-8')
\* and read(); the exception of a failed decode is logged and raised again
LoadDocument(entry) ==
    IF \E i \in 1..entry.size : Content(entry)[i] = "?"
    THEN [error |-> "UnicodeDecodeError", text |-> <<>>]
    ELSE [error |-> "", text |-> Content(entry)]

\* the database file and the model directory the RAGrep instance is
\* constructed with
DbPath == "/r1/.ragrep.db"
ModelDir == "/r1/models"

\* ignore paths that leave out the model directory
IndexIgnorePaths_NoModelCache == <<DbPath, DbPath \o ".legacy">>

\* RAGrep._index_ignore_paths
IndexIgnorePaths == <<ModelDir, DbPath, DbPath \o ".legacy">>

\* the names of the files that lie in a directory below the root
NestedNames == {"c.py", "m.py"}

\* a file is one of the ignore paths or lies in one
IsIgnored(file, ignore_paths) ==
    \E i \in 1..Len(ignore_paths) :
        \/ file = ignore_paths[i]
        \/ \E name \in NestedNames : file = ignore_paths[i] \o "/" \o name

\* DocumentProcessor.discover_path: the files under the path that are not
\* ignored, their records sorted by path, and the root
DiscoverPath(dir, path, extra_ignore_paths) ==
    LET files == Sorted({p \in DOMAIN dir :
                            ~IsIgnored(path \o "/" \o p, extra_ignore_paths)})
    IN  [files |-> files,
         file_records |-> [i \in 1..Len(files) |->
                             [path |-> files[i], size |-> dir[files[i]].size,
                              mtime_ns |-> dir[files[i]].mtime_ns]],
         root_path |-> path]

\* a slice bound as Python reads it: a negative bound counts from the end,
\* and every bound is clipped to 0..len
SliceBound(bound, len) ==
    IF bound < 0 THEN (IF bound + len < 0 THEN 0 ELSE bound + len)
    ELSE IF bound > len THEN len ELSE bound

\* text[start:end]
Slice(text, start, end) ==
    IF SliceBound(start, Len(text)) < SliceBound(end, Len(text))
    THEN SubSeq(text, SliceBound(start, Len(text)) + 1, SliceBound(end, Len(text)))
    ELSE <<>>

\* the while loop of DocumentProcessor.chunk_text, entered with "start" and
\* the chunks made so far
RECURSIVE ChunkLoop(_, _, _, _, _)
ChunkLoop(text, chunk_size, chunk_overlap, start, chunks) ==
    IF ~(start < Len(text)) THEN chunks
    ELSE LET end == start + chunk_size
             made == Append(chunks, [text |-> Slice(text, start, end),
                                     chunk_index |-> Len(chunks),
                                     start_char |-> start,
                                     end_char |-> end])
             next == end - chunk_overlap
         IN  IF next >= Len(text) THEN made
             ELSE ChunkLoop(text, chunk_size, chunk_overlap, next, made)

\* DocumentProcessor.chunk_text
ChunkText(text, chunk_size, chunk_overlap) ==
    ChunkLoop(text, chunk_size, chunk_overlap, 0, <<>>)

\* the id of a chunk: its path, ordinal and character range
ChunkId(path, chunk) ==
    path \o ":" \o ToString(chunk.chunk_index) \o ":" \o ToString(chunk.start_char)
         \o "-" \o ToString(chunk.end_char)

\* the chunk dictionaries of one file; a file that cannot be loaded gives
\* none
FileChunks(path, entry, chunk_size, chunk_overlap) ==
    LET doc == LoadDocument(entry)
        parts == IF doc.error # "" THEN <<>>
                 ELSE ChunkText(doc.text, chunk_size, chunk_overlap)
    IN  [i \in 1..Len(parts) |->
            [id |-> ChunkId(path, parts[i]),
             file_path |-> path,
             chunk_index |-> parts[i].chunk_index,
             start_char |-> parts[i].start_char,
             end_char |-> parts[i].end_char,
             text |-> parts[i].text]]

\* DocumentProcessor.process_files: the chunks of the files, file after file
RECURSIVE ProcessFiles(_, _, _, _)
ProcessFiles(files, dir, chunk_size, chunk_overlap) ==
    IF files = <<>> THEN <<>>
    ELSE FileChunks(Head(files), dir[Head(files)], chunk_size, chunk_overlap)
         \o ProcessFiles(Tail(files), dir, chunk_size, chunk_overlap)

\* the files process_files could not load and logged
SkippedFiles(files, dir) ==
    SelectSeq(files, LAMBDA p : LoadDocument(dir[p]).error # "")

\* text.count(token)
RECURSIVE Count(_, _)
Count(text, token) ==
    IF text = <<>> THEN 0
    ELSE (IF Head(text) = token THEN 1 ELSE 0) + Count(Tail(text), token)

\* the vector of a text: how often it holds each token of the vocabulary
Embed(text) == <<Count(text, "x"), Count(text, "y")>>

\* the behaviours of the embedding backend
Gateways == {"answers", "raises", "drops one"}

\* embedder.embed_texts: a vector per text, an exception, or (an injected
\* backend that breaks the protocol) one vector too few
EmbedTexts(texts, gateway) ==
    CASE gateway = "answers" ->
            [ok |-> TRUE, vectors |-> [i \in 1..Len(texts) |-> Embed(texts[i])]]
      [] gateway = "raises" ->
            [ok |-> FALSE, vectors |-> <<>>]
      [] gateway = "drops one" ->
            [ok |-> TRUE, vectors |-> [i \in 1..(Len(texts) - 1) |-> Embed(texts[i])]]

\* the files index hands to process_files: when it takes every file of the
\* scan whatever the plan says
ChangedPaths_All(plan, files) == files

\* the files index hands to process_files
ChangedPaths(plan, files) ==
    IF plan.full_rebuild THEN files ELSE plan.new_files \o plan.updated_files

\* a no-op index call that stamps indexed_at
SkipIndex_Stamps(store, plan, file_records, now) ==
    [db |-> SetMetadata(store, "indexed_at", ToString(now)),
     result |-> [indexed |-> FALSE,
                 reason |-> plan.reason,
                 files |-> Len(file_records),
                 chunks |-> GetStats(store).total_chunks,
                 chunks_indexed |-> 0,
                 indexed_files |-> 0,
                 new_files |-> <<>>,
                 updated_files |-> <<>>,
                 removed_files |-> <<>>,
                 full_rebuild |-> FALSE]]

\* index when the plan needs no index: the store is read, not written
SkipIndex(store, plan, file_records, now) ==
    [db |-> store,
     result |-> [indexed |-> FALSE,
                 reason |-> plan.reason,
                 files |-> Len(file_records),
                 chunks |-> GetStats(store).total_chunks,
                 chunks_indexed |-> 0,
                 indexed_files |-> 0,
                 new_files |-> <<>>,
                 updated_files |-> <<>>,
                 removed_files |-> <<>>,
                 full_rebuild |-> FALSE]]

\* the dictionary index returns after the store call
IndexResult(store, plan, file_records, chunks) ==
    [indexed |-> TRUE,
     reason |-> plan.reason,
     files |-> Len(file_records),
     chunks |-> GetStats(store).total_chunks,
     chunks_indexed |-> Len(chunks),
     indexed_files |-> Len(plan.new_files) + Len(plan.updated_files),
     new_files |-> plan.new_files,
     updated_files |-> plan.updated_files,
     removed_files |-> plan.removed_files,
     full_rebuild |-> plan.full_rebuild]

\* what a call that raised leaves in place of a result
NoResult == [indexed |-> FALSE]

\* an index that deletes the rows it is about to replace before it calls
\* the embedding backend
IndexCall_ClearsFirst(store, dir, path, cfg, force, now, gateway) ==
    LET scan == DiscoverPath(dir, path, IndexIgnorePaths)
        plan == PlanIndexUpdate(store, scan.root_path, scan.file_records, cfg.model,
                                cfg.chunk_size, cfg.chunk_overlap, force)
    IN  IF ~plan.needs_index
        THEN LET skip == SkipIndex(store, plan, scan.file_records, now)
             IN  [error |-> "", db |-> skip.db, plan |-> plan, processed |-> <<>>,
                  texts |-> <<>>,
                  calls |-> <<"discover_path", "plan_index_update", "get_stats">>,
                  result |-> skip.result]
        ELSE
          LET changed_paths == ChangedPaths(plan, scan.files)
              chunks == ProcessFiles(changed_paths, dir, cfg.chunk_size, cfg.chunk_overlap)
              texts == [i \in 1..Len(chunks) |-> chunks[i].text]
              embedded == IF texts # <<>> THEN EmbedTexts(texts, gateway)
                          ELSE [ok |-> TRUE, vectors |-> <<>>]
              stored == IF plan.full_rebuild
                        THEN ReplaceIndex(store, scan.root_path, scan.file_records, chunks,
                                          embedded.vectors, cfg.model, cfg.chunk_size,
                                          cfg.chunk_overlap, now)
                        ELSE ApplyFileUpdates(store, scan.root_path, scan.file_records,
                                              chunks, embedded.vectors, plan.new_files,
                                              plan.updated_files, plan.removed_files,
                                              cfg.model, cfg.chunk_size, cfg.chunk_overlap,
                                              now)
              scanned == <<"discover_path", "plan_index_update", "process_files">>
                         \o (IF texts # <<>> THEN <<"embed_texts">> ELSE <<>>)
              written == scanned \o (IF plan.full_rebuild THEN <<"replace_index">>
                                     ELSE <<"apply_file_updates">>)
          IN  IF ~embedded.ok
                THEN [error |-> "EmbeddingError",
                      db |-> IF plan.full_rebuild
                             THEN DeleteAllFiles(DeleteAllChunks(store))
                             ELSE DeleteChunksOf(store, changed_paths),
                      plan |-> plan,
                      processed |-> changed_paths, texts |-> texts, calls |-> scanned,
                      result |-> NoResult]
              ELSE IF stored.error # ""
                THEN [error |-> stored.error, db |-> stored.db, plan |-> plan,
                      processed |-> changed_paths, texts |-> texts, calls |-> written,
                      result |-> NoResult]
              ELSE [error |-> "", db |-> stored.db, plan |-> plan,
                    processed |-> changed_paths, texts |-> texts,
                    calls |-> written \o <<"get_stats">>,
                    result |-> IndexResult(stored.db, plan, scan.file_records, chunks)]

\* RAGrep.index: [error, db, plan, processed, texts, calls, result];
\* error = "" when it returns, processed are the files handed to
\* process_files, texts the texts handed to the embedding backend and calls
\* the methods of its collaborators index called, in the order of the calls
IndexCall(store, dir, path, cfg, force, now, gateway) ==
    LET scan == DiscoverPath(dir, path, IndexIgnorePaths)
        plan == PlanIndexUpdate(store, scan.root_path, scan.file_records, cfg.model,
                                cfg.chunk_size, cfg.chunk_overlap, force)
    IN  IF ~plan.needs_index
        THEN LET skip == SkipIndex(store, plan, scan.file_records, now)
             IN  [error |-> "", db |-> skip.db, plan |-> plan, processed |-> <<>>,
                  texts |-> <<>>,
                  calls |-> <<"discover_path", "plan_index_update", "get_stats">>,
                  result |-> skip.result]
        ELSE
          LET changed_paths == ChangedPaths(plan, scan.files)
              chunks == ProcessFiles(changed_paths, dir, cfg.chunk_size, cfg.chunk_overlap)
              texts == [i \in 1..Len(chunks) |-> chunks[i].text]
              embedded == IF texts # <<>> THEN EmbedTexts(texts, gateway)
                          ELSE [ok |-> TRUE, vectors |-> <<>>]
              stored == IF plan.full_rebuild
                        THEN ReplaceIndex(store, scan.root_path, scan.file_records, chunks,
                                          embedded.vectors, cfg.model, cfg.chunk_size,
                                          cfg.chunk_overlap, now)
                        ELSE ApplyFileUpdates(store, scan.root_path, scan.file_records,
                                              chunks, embedded.vectors, plan.new_files,
                                              plan.updated_files, plan.removed_files,
                                              cfg.model, cfg.chunk_size, cfg.chunk_overlap,
                                              now)
              scanned == <<"discover_path", "plan_index_update", "process_files">>
                         \o (IF texts # <<>> THEN <<"embed_texts">> ELSE <<>>)
              written == scanned \o (IF plan.full_rebuild THEN <<"replace_index">>
                                     ELSE <<"apply_file_updates">>)
          IN  IF ~embedded.ok
                THEN [error |-> "EmbeddingError", db |-> store, plan |-> plan,
                      processed |-> changed_paths, texts |-> texts, calls |-> scanned,
                      result |-> NoResult]
              ELSE IF stored.error # ""
                THEN [error |-> stored.error, db |-> stored.db, plan |-> plan,
                      processed |-> changed_paths, texts |-> texts, calls |-> written,
                      result |-> NoResult]
              ELSE [error |-> "", db |-> stored.db, plan |-> plan,
                    processed |-> changed_paths, texts |-> texts,
                    calls |-> written \o <<"get_stats">>,
                    result |-> IndexResult(stored.db, plan, scan.file_records, chunks)]

Init ==
    /\ db = EmptyDb
    /\ disk = NoDisk
    /\ last = [op |-> "idle"]
    /\ tx = NoTx /\ seen = NotRead

\* a file of the directory is created or rewritten
WriteFile ==
    /\ Idle
    /\ \E p \in Paths : \E e \in DiskEntries(p) :
          /\ p \in DOMAIN disk => disk[p] # e
          /\ disk' = (p :> e) @@ disk
    /\ UNCHANGED <<db, last, tx, seen>>

\* a file of the directory is deleted
DeleteFile ==
    /\ Idle
    /\ \E p \in DOMAIN disk : disk' = [q \in DOMAIN disk \ {p} |-> disk[q]]
    /\ UNCHANGED <<db, last, tx, seen>>

\* rag.index(path, force=force) on an instance constructed with cfg
Index ==
    /\ Idle
    /\ \E path \in Roots, cfg \in RagConfigs, force \in BOOLEAN, now \in Times, gateway \in Gateways :
          \E r \in {IndexCall(db, DirOf(disk, path), path, cfg, force, now, gateway)} :
              /\ db' = r.db
              /\ last' = [op |-> "index", path |-> path, cfg |-> cfg, force |-> force,
                          before |-> db, error |-> r.error, plan |-> r.plan,
                          processed |-> r.processed, texts |-> r.texts,
                          calls |-> r.calls, result |-> r.result]
    /\ UNCHANGED <<tx, seen, disk>>

Next ==
    \/ WriteFile
    \/ DeleteFile
    \/ Index
    \/ Return

Spec == Init /\ [][Next]_vars

---------------------------------------------------------------------------
(* DocumentProcessor on its own: Init draws the arguments of the          *)
(* constructor and a text; the processor is constructed, chunk_text is    *)
(* entered, and every pass of its while loop is one step.                 *)

MaxText == 5        \* the texts have 0..MaxText characters
MaxChunkSize == 3   \* chunk_size ranges over 0..MaxChunkSize

\* the loop is followed for one pass more than any text needs when
\* 0 <= chunk_overlap < chunk_size
MaxPasses == MaxText + 1

\* texts of distinct characters, so that a slice shows where it was cut
Letters == <<"a", "b", "c", "d", "e", "f", "g">>
ChunkerTexts == { SubSeq(Letters, 1, n) : n \in 0..MaxText }
ChunkerSizes == 0..MaxChunkSize
ChunkerOverlaps == (0 - 1)..MaxChunkSize

\* DocumentProcessor.__init__ (RAGrep.__init__ passes its arguments on)
DocumentProcessorInit(chunk_size, chunk_overlap) ==
    [error |-> "", chunk_size |-> chunk_size, chunk_overlap |-> chunk_overlap]

\* one pass of the while loop of chunk_text
ChunkPass(text, chunk_size, chunk_overlap, start, chunks) ==
    LET end == start + chunk_size
        next == end - chunk_overlap
    IN  [chunks |-> Append(chunks, [text |-> Slice(text, start, end),
                                    chunk_index |-> Len(chunks),
                                    start_char |-> start,
                                    end_char |-> end]),
         start |-> next,
         break |-> next >= Len(text)]

InitChunk ==
    /\ \E text \in ChunkerTexts, chunk_size \in ChunkerSizes,
          chunk_overlap \in ChunkerOverlaps :
          last = [op |-> "new", text |-> text, chunk_size |-> chunk_size,
                  chunk_overlap |-> chunk_overlap]
    /\ db = EmptyDb /\ tx = NoTx /\ seen = NotRead /\ disk = NoDisk

NewDocumentProcessor ==
    /\ last.op = "new"
    /\ \E self \in {DocumentProcessorInit(last.chunk_size, last.chunk_overlap)} :
          last' = [op |-> "constructed", text |-> last.text,
                   chunk_size |-> last.chunk_size,
                   chunk_overlap |-> last.chunk_overlap,
                   error |-> self.error, self |-> self]
    /\ UNCHANGED <<db, tx, seen, disk>>

ChunkTextEnter ==
    /\ last.op = "constructed" /\ last.error = ""
    /\ last' = [op |-> "loop", text |-> last.text, self |-> last.self,
                start |-> 0, chunks |-> <<>>]
    /\ UNCHANGED <<db, tx, seen, disk>>

ChunkTextPass ==
    /\ last.op = "loop"
    /\ last.start < Len(last.text)
    /\ Len(last.chunks) < MaxPasses
    /\ \E r \in {ChunkPass(last.text, last.self.chunk_size, last.self.chunk_overlap,
                           last.start, last.chunks)} :
          last' = [last EXCEPT !.op = IF r.break THEN "returned" ELSE "loop",
                               !.start = r.start,
                               !.chunks = r.chunks]
    /\ UNCHANGED <<db, tx, seen, disk>>

ChunkTextExit ==
    /\ last.op = "loop"
    /\ ~(last.start < Len(last.text))
    /\ last' = [last EXCEPT !.op = "returned"]
    /\ UNCHANGED <<db, tx, seen, disk>>

NextChunk ==
    \/ NewDocumentProcessor
    \/ ChunkTextEnter
    \/ ChunkTextPass
    \/ ChunkTextExit

SpecChunk == InitChunk /\ [][NextChunk]_vars

---------------------------------------------------------------------------

(* RAGrep.recall on one instance, over a directory that changes between   *)
(* calls.  One Recall action is one whole recall call: the index it runs  *)
(* first when auto_index is set, the embedding of the query, the search.  *)

\* the configuration of the instance
RecallConfig == [model |-> "m1", chunk_size |-> 2, chunk_overlap |-> 1]

\* the query texts: one per token of the vocabulary, and one without any
RecallQueries == { <<"x">>, <<"y">>, <<"q">> }

\* the path argument: "None" stands for Python's None
RecallPaths == {"None", "", "/r1", "/r2"}

RecallLimits == {0, 1, MaxLimit}

\* "not value" for a path or None
Falsy(value) == value \in {"None", ""}

\* a recall that falls back to the current directory at once
EffectivePath_IgnoresIndexedRoot(path, indexed_root) ==
    IF ~Falsy(path) THEN path ELSE "."

\* path or self.vector_store.get_indexed_root() or "."
EffectivePath(path, indexed_root) ==
    IF ~Falsy(path) THEN path
    ELSE IF ~Falsy(indexed_root) THEN indexed_root
    ELSE "."

\* embedder.embed_query: the vector of the query, or an exception
EmbedQuery(query, gateway) ==
    IF gateway = "raises" THEN [ok |-> FALSE, vector |-> <<>>]
    ELSE [ok |-> TRUE, vector |-> Embed(query)]

\* the auto_index entry of the result when recall did not index (None)
NoIndexResult == [none |-> TRUE]

\* a recall that runs the index whatever auto_index says
RecallIndex_AlwaysIndexes(store, dir, path, auto_index, cfg, now, gateway) ==
    LET effective_path == EffectivePath(path, GetIndexedRoot(store))
    IN  [ran |-> auto_index,
         path |-> IF auto_index THEN effective_path ELSE "None",
         call |-> IndexCall(store, DirOf(dir, effective_path), effective_path, cfg,
                            FALSE, now, gateway)]

\* the first part of RAGrep.recall, the index it runs when auto_index is
\* set: [ran, path, call], path the path handed to index ("None" when
\* recall does not index) and call what index did
RecallIndex(store, dir, path, auto_index, cfg, now, gateway) ==
    IF auto_index
    THEN LET effective_path == EffectivePath(path, GetIndexedRoot(store))
         IN  [ran |-> TRUE,
              path |-> effective_path,
              call |-> IndexCall(store, DirOf(dir, effective_path), effective_path, cfg,
                                 FALSE, now, gateway)]
    ELSE [ran |-> FALSE,
          path |-> "None",
          call |-> [error |-> "", db |-> store, result |-> NoIndexResult]]

\* the second part of RAGrep.recall, after the index "first": the query is
\* embedded, the store searched and the result built
RecallQuery(query, limit, path, gateway, first) ==
    LET calls == IF first.ran
                 THEN (IF Falsy(path) THEN <<"get_indexed_root">> ELSE <<>>) \o <<"index">>
                 ELSE <<>>
        embedded == EmbedQuery(query, gateway)
        matches == Search(first.call.db, embedded.vector, limit)
    IN  IF first.call.error # ""
          THEN [error |-> first.call.error, db |-> first.call.db, calls |-> calls,
                index_path |-> first.path, result |-> NoResult]
        ELSE IF ~embedded.ok
          THEN [error |-> "EmbeddingError", db |-> first.call.db,
                calls |-> calls \o <<"embed_query">>,
                index_path |-> first.path, result |-> NoResult]
        ELSE [error |-> "", db |-> first.call.db,
              calls |-> calls \o <<"embed_query", "search">>,
              index_path |-> first.path,
              result |-> [query |-> query,
                          matches |-> matches,
                          count |-> Len(matches),
                          auto_index |-> first.call.result]]

\* RAGrep.recall: [error, db, calls, index_path, result]; error = "" when it
\* returns, calls are the calls recall made in their order and index_path
\* is the path it handed to index ("None" when it did not index)
RecallCall(store, dir, query, limit, path, auto_index, cfg, now, gateway) ==
    RecallQuery(query, limit, path, gateway,
                RecallIndex(store, dir, path, auto_index, cfg, now, gateway))

\* rag.recall(query, limit=limit, path=path, auto_index=auto_index)
Recall ==
    /\ Idle
    /\ \E query \in RecallQueries, limit \in RecallLimits, path \in RecallPaths :
         \E auto_index \in BOOLEAN, now \in Times, gateway \in Gateways :
          \E r \in {RecallCall(db, disk, query, limit, path, auto_index, RecallConfig,
                              now, gateway)} :
              /\ db' = r.db
              /\ last' = [op |-> "recall", query |-> query, limit |-> limit,
                          path |-> path, auto_index |-> auto_index, before |-> db,
                          error |-> r.error, calls |-> r.calls,
                          index_path |-> r.index_path, result |-> r.result]
    /\ UNCHANGED <<tx, seen, disk>>

NextRecall ==
    \/ WriteFile
    \/ DeleteFile
    \/ Recall
    \/ Return

SpecRecall == Init /\ [][NextRecall]_vars

---------------------------------------------------------------------------
(* RAGrep.index and RAGrep.recall on one instance whose database file,    *)
(* ".legacy" sibling and model directory lie under the indexed root       *)
(* "/r1": files come and go there as well as among the source files.      *)

\* the files of the root that lie at or under an ignore path of the instance
IgnoredFiles == {".ragrep.db", ".ragrep.db.legacy/c.py", "models/m.py"}

\* the database file, a file of the legacy copy or a file of the model
\* directory is created or rewritten
WriteIgnored ==
    /\ Idle
    /\ \E p \in IgnoredFiles, e \in [size : {1}, mtime_ns : MtimeTokens] :
          /\ p \in DOMAIN disk => disk[p] # e
          /\ disk' = (p :> e) @@ disk
    /\ UNCHANGED <<db, last, tx, seen>>

\* rag.index("/r1", force=force)
IndexRoot ==
    /\ Idle
    /\ \E force \in BOOLEAN, now \in Times :
          \E r \in {IndexCall(db, DirOf(disk, "/r1"), "/r1", RecallConfig, force, now,
                             "answers")} :
              /\ db' = r.db
              /\ last' = [op |-> "index", path |-> "/r1", cfg |-> RecallConfig,
                          force |-> force, before |-> db, error |-> r.error,
                          plan |-> r.plan, processed |-> r.processed, texts |-> r.texts,
                          calls |-> r.calls, result |-> r.result]
    /\ UNCHANGED <<tx, seen, disk>>

\* rag.recall(query, limit=1, path=path, auto_index=True)
RecallRoot ==
    /\ Idle
    /\ \E query \in {<<"x">>}, path \in {"None", "/r1"}, now \in Times :
          \E r \in {RecallCall(db, disk, query, 1, path, TRUE, RecallConfig, now,
                              "answers")} :
              /\ db' = r.db
              /\ last' = [op |-> "recall", query |-> query, limit |-> 1,
                          path |-> path, auto_index |-> TRUE, before |-> db,
                          error |-> r.error, calls |-> r.calls,
                          index_path |-> r.index_path, result |-> r.result]
    /\ UNCHANGED <<tx, seen, disk>>

NextIgnore ==
    \/ WriteFile
    \/ DeleteFile
    \/ WriteIgnored
    \/ IndexRoot
    \/ RecallRoot
    \/ Return

SpecIgnore == Init /\ [][NextIgnore]_vars

---------------------------------------------------------------------------

(* RAGrep.index over a directory in which files can hold bytes that do not *)
(* decode.                                                                 *)

\* a file of the directory is written with bytes that are not UTF-8
WriteUndecodable ==
    /\ Idle
    /\ \E p \in Paths :
          /\ p \in DOMAIN disk => disk[p].mtime_ns # 0
          /\ disk' = (p :> [size |-> 1, mtime_ns |-> 0]) @@ disk
    /\ UNCHANGED <<db, last, tx, seen>>

\* rag.index("/r1", force=force), with the files process_files logged as
\* skipped
IndexScan ==
    /\ Idle
    /\ \E force \in BOOLEAN, now \in Times :
          \E r \in {IndexCall(db, DirOf(disk, "/r1"), "/r1", RecallConfig, force, now,
                             "answers")} :
              /\ db' = r.db
              /\ last' = [op |-> "index", path |-> "/r1", cfg |-> RecallConfig,
                          force |-> force, before |-> db, error |-> r.error,
                          plan |-> r.plan, processed |-> r.processed, texts |-> r.texts,
                          calls |-> r.calls, result |-> r.result,
                          skipped |-> SkippedFiles(r.processed, disk)]
    /\ UNCHANGED <<tx, seen, disk>>

NextScan ==
    \/ WriteFile
    \/ DeleteFile
    \/ WriteUndecodable
    \/ IndexScan
    \/ Return

SpecScan == Init /\ [][NextScan]_vars

---------------------------------------------------------------------------

(* RAGrep.index over a directory in which a file can be rewritten while    *)
(* stat() keeps reporting the size and the modification time it had.       *)

\* a file is rewritten with other text of the same length and its
\* modification time is kept (a coarse clock, or os.utime after the write)
RewriteInPlace ==
    /\ Idle
    /\ \E p \in DOMAIN disk :
          /\ "text" \notin DOMAIN disk[p]
          /\ disk' = (p :> [size |-> disk[p].size, mtime_ns |-> disk[p].mtime_ns,
                            text |-> IF disk[p].mtime_ns = 1 THEN "y" ELSE "x"]) @@ disk
    /\ UNCHANGED <<db, last, tx, seen>>

NextEdit ==
    \/ WriteFile
    \/ DeleteFile
    \/ RewriteInPlace
    \/ IndexRoot
    \/ Return

SpecEdit == Init /\ [][NextEdit]_vars

---------------------------------------------------------------------------

(* The calls that only read, between index calls under changing            *)
(* configurations.  Every call leaves in "last" the database as it was     *)
(* before the call and the calls it made to the embedding backend.         *)

\* VectorStore.needs_reindex
NeedsReindex(store, root_path, files, embedding_model, chunk_size, chunk_overlap) ==
    LET plan == PlanIndexUpdate(store, root_path, files, embedding_model, chunk_size,
                                chunk_overlap, FALSE)
    IN  <<plan.needs_index, plan.reason>>

\* rag.index("/r1", force=force) on an instance constructed with cfg
IndexConfigured ==
    /\ Idle
    /\ \E cfg \in RagConfigs, force \in BOOLEAN, now \in Times :
          \E r \in {IndexCall(db, DirOf(disk, "/r1"), "/r1", cfg, force, now, "answers")} :
              /\ db' = r.db
              /\ last' = [op |-> "index", path |-> "/r1", cfg |-> cfg, force |-> force,
                          before |-> db, error |-> r.error, plan |-> r.plan,
                          processed |-> r.processed, texts |-> r.texts,
                          calls |-> r.calls, result |-> r.result, now |-> now]
    /\ UNCHANGED <<tx, seen, disk>>

\* rag.stats()
Stats ==
    /\ Idle
    /\ \E stats \in {GetStats(db)} :
          last' = [op |-> "stats", before |-> db, error |-> "", calls |-> <<>>,
                   result |-> stats]
    /\ UNCHANGED <<db, tx, seen, disk>>

\* rag.recall(query, limit=limit, auto_index=False)
RecallStored ==
    /\ Idle
    /\ \E query \in {<<"x">>, <<"q">>}, limit \in {MaxLimit}, gateway \in {"answers", "raises"} :
          \E r \in {RecallCall(db, disk, query, limit, "None", FALSE, RecallConfig, 1,
                              gateway)} :
              /\ db' = r.db
              /\ last' = [op |-> "recall", query |-> query, limit |-> limit,
                          before |-> db, error |-> r.error, calls |-> r.calls,
                          result |-> r.result]
    /\ UNCHANGED <<tx, seen, disk>>

\* rag.dump(query, limit): recall(query, limit=limit, auto_index=False)["matches"]
Dump ==
    /\ Idle
    /\ \E query \in {<<"x">>, <<"q">>}, limit \in {MaxLimit}, gateway \in {"answers", "raises"} :
          \E r \in {RecallCall(db, disk, query, limit, "None", FALSE, RecallConfig, 1,
                              gateway)} :
              /\ db' = r.db
              /\ last' = [op |-> "dump", query |-> query, limit |-> limit,
                          before |-> db, error |-> r.error, calls |-> r.calls,
                          result |-> IF r.error = "" THEN r.result.matches ELSE <<>>]
    /\ UNCHANGED <<tx, seen, disk>>

\* vector_store.plan_index_update and vector_store.needs_reindex with the
\* directory as it is
ReadPlan ==
    /\ Idle
    /\ \E cfg \in RagConfigs, force \in BOOLEAN :
         \E files \in {DiscoverPath(disk, "/r1", IndexIgnorePaths).file_records} :
          \E plan \in {PlanIndexUpdate(db, "/r1", files, cfg.model, cfg.chunk_size,
                                       cfg.chunk_overlap, force)},
             needs \in {NeedsReindex(db, "/r1", files, cfg.model, cfg.chunk_size,
                                     cfg.chunk_overlap)} :
              last' = [op |-> "plan", cfg |-> cfg, force |-> force, before |-> db,
                       error |-> "", calls |-> <<>>, plan |-> plan, needs |-> needs]
    /\ UNCHANGED <<db, tx, seen, disk>>

\* vector_store.search and vector_store.get_indexed_root
ReadStore ==
    /\ Idle
    /\ \E query \in {<<1, 0>>, <<0, 1>>}, limit \in {1, MaxLimit} :
          \E matches \in {Search(db, query, limit)}, root \in {GetIndexedRoot(db)} :
              last' = [op |-> "search", query |-> query, limit |-> limit, before |-> db,
                       error |-> "", calls |-> <<>>, matches |-> matches, root |-> root]
    /\ UNCHANGED <<db, tx, seen, disk>>

NextRead ==
    \/ WriteFile
    \/ DeleteFile
    \/ IndexConfigured
    \/ Stats
    \/ RecallStored
    \/ Dump
    \/ ReadPlan
    \/ ReadStore
    \/ Return

SpecRead == Init /\ [][NextRead]_vars

---------------------------------------------------------------------------

(* VectorStore.__init__ over a storage location that an earlier,          *)
(* directory-based version of the program also writes to.  disk holds     *)
(* what lies at db_path and at "<db_path>.legacy".                        *)

MaxData == 6      \* the legacy directories hold data 1..MaxData

StorageData == 1..MaxData

\* what can lie at a path: nothing, a directory of the legacy layout with
\* its data, or a database file with or without rows
NoEntry == [kind |-> "none"]
LegacyDir(data) == [kind |-> "dir", data |-> data]
DatabaseFile(rows) == [kind |-> "file", rows |-> rows]

\* VectorStore.__init__: [error, storage], storage what lies at db_path and
\* at legacy_path when the constructor is left
VectorStoreInit(storage) ==
    LET migrate == storage.db_path.kind = "dir"
        \* shutil.rmtree(legacy_path), then self.db_path.rename(legacy_path)
        migrated == IF migrate
                    THEN [db_path |-> NoEntry, legacy_path |-> storage.db_path]
                    ELSE storage
        \* sqlite3.connect creates the file when there is none
        connected == IF migrated.db_path.kind = "none"
                     THEN [migrated EXCEPT !.db_path = DatabaseFile(0)]
                     ELSE migrated
    IN  IF migrate /\ storage.legacy_path.kind = "file"
        THEN [error |-> "NotADirectoryError", storage |-> storage]
        ELSE [error |-> "", storage |-> connected]

InitOpen ==
    /\ disk = [db_path |-> NoEntry, legacy_path |-> NoEntry]
    /\ last = [op |-> "idle"]
    /\ db = EmptyDb /\ tx = NoTx /\ seen = NotRead

\* the directory-based version of the program stores data at db_path
LegacyVersionWrites ==
    /\ Idle
    /\ disk.db_path.kind \in {"none", "dir"}
    /\ \E data \in StorageData :
          /\ disk.db_path # LegacyDir(data) /\ disk.legacy_path # LegacyDir(data)
          /\ disk' = [disk EXCEPT !.db_path = LegacyDir(data)]
    /\ UNCHANGED <<db, last, tx, seen>>

\* the user removes the database file
RemoveDatabase ==
    /\ Idle
    /\ disk.db_path.kind = "file"
    /\ disk' = [disk EXCEPT !.db_path = NoEntry]
    /\ UNCHANGED <<db, last, tx, seen>>

\* an index call of an open store commits rows to the database file
CommitRows ==
    /\ Idle
    /\ disk.db_path = DatabaseFile(0)
    /\ disk' = [disk EXCEPT !.db_path = DatabaseFile(1)]
    /\ UNCHANGED <<db, last, tx, seen>>

\* VectorStore(db_path)
OpenStore ==
    /\ Idle
    /\ \E r \in {VectorStoreInit(disk)} :
          /\ disk' = r.storage
          /\ last' = [op |-> "open", before |-> disk, error |-> r.error]
    /\ UNCHANGED <<db, tx, seen>>

NextOpen ==
    \/ LegacyVersionWrites
    \/ RemoveDatabase
    \/ CommitRows
    \/ OpenStore
    \/ Return

SpecOpen == InitOpen /\ [][NextOpen]_vars

---------------------------------------------------------------------------

(* Claims about plan_index_update (checked under SpecPlan) *)

Planned == last.op = "plan_index_update"

\* the value recorded under a metadata key, "<none>" when the key is absent
Recorded(key) == IF key \in DOMAIN db.metadata THEN db.metadata[key] ELSE "<none>"

\* the six full-rebuild rules, in the order of the specification
RuleHolds ==
    << last.force,
       "indexed_root" \notin DOMAIN db.metadata,
       Recorded("indexed_root") # last.cfg.root,
       Recorded("embedding_model") # last.cfg.model,
       Recorded("chunk_size") # ToString(last.cfg.chunk_size),
       Recorded("chunk_overlap") # ToString(last.cfg.chunk_overlap) >>

RuleReason ==
    << "forced reindex", "index has not been created yet", "indexed root changed",
       "embedding model changed", "chunk size changed", "chunk overlap changed" >>

NoRuleHolds == \A i \in 1..6 : ~RuleHolds[i]

\* C1: when one or more full-rebuild rules hold, the plan is a full rebuild
\* whose reason is that of the earliest rule that holds.
C1_RulePrecedence ==
    Planned =>
        \A i \in 1..6 :
            (RuleHolds[i] /\ \A j \in 1..(i-1) : ~RuleHolds[j]) =>
                /\ last.plan.needs_index = TRUE
                /\ last.plan.full_rebuild = TRUE
                /\ last.plan.reason = RuleReason[i]

\* several rules hold at once, the earliest of them is not the first rule
C1_Witness ==
    /\ Planned
    /\ ~RuleHolds[1] /\ ~RuleHolds[2] /\ ~RuleHolds[3] /\ ~RuleHolds[4]
    /\ RuleHolds[5] /\ RuleHolds[6]
    /\ last.plan.reason = "chunk size changed"

Rank(p) == CHOOSE i \in 1..Len(PathNames) : PathNames[i] = p
StrictlySorted(s) == \A i, j \in 1..Len(s) : i < j => Rank(s[i]) < Rank(s[j])

\* the scanned catalog and the persisted catalog, read off the inputs
ScannedPaths == {last.files[i].path : i \in 1..Len(last.files)}
ScannedSig(p) ==
    LET e == last.files[CHOOSE i \in 1..Len(last.files) : last.files[i].path = p]
    IN  <<e.size, e.mtime_ns>>
PersistedPaths == DOMAIN db.files
PersistedSig(p) == <<db.files[p].size, db.files[p].mtime_ns>>

\* C2: without a full-rebuild rule the three lists are the exact differences
\* of the two catalogs, sorted and pairwise disjoint, and every other path
\* has the same (size, mtime) in both.
C2_DiffExact ==
    (Planned /\ NoRuleHolds) =>
        LET new == SetOf(last.plan.new_files)
            upd == SetOf(last.plan.updated_files)
            rem == SetOf(last.plan.removed_files)
        IN  /\ new = ScannedPaths \ PersistedPaths
            /\ rem = PersistedPaths \ ScannedPaths
            /\ upd = {p \in ScannedPaths \cap PersistedPaths :
                          ScannedSig(p) # PersistedSig(p)}
            /\ StrictlySorted(last.plan.new_files)
            /\ StrictlySorted(last.plan.updated_files)
            /\ StrictlySorted(last.plan.removed_files)
            /\ new \cap upd = {} /\ new \cap rem = {} /\ upd \cap rem = {}
            /\ \A p \in (ScannedPaths \cup PersistedPaths) \ (new \cup upd \cup rem) :
                  /\ p \in ScannedPaths \cap PersistedPaths
                  /\ ScannedSig(p) = PersistedSig(p)

\* a diff with an updated path whose size is the same and whose mtime differs
C2_Witness ==
    /\ Planned /\ NoRuleHolds
    /\ \E p \in SetOf(last.plan.updated_files) :
          /\ ScannedSig(p)[1] = PersistedSig(p)[1]
          /\ ScannedSig(p)[2] # PersistedSig(p)[2]
    /\ last.plan.removed_files # <<>>

\* the reason for each combination of (new, updated, removed) being non-empty
ExpectedReason(n, u, r) ==
    CASE  n /\  u /\  r -> "new files detected, updated files detected, files removed"
      []  n /\  u /\ ~r -> "new files detected, updated files detected"
      []  n /\ ~u /\  r -> "new files detected, files removed"
      []  n /\ ~u /\ ~r -> "new files detected"
      [] ~n /\  u /\  r -> "updated files detected, files removed"
      [] ~n /\  u /\ ~r -> "updated files detected"
      [] ~n /\ ~u /\  r -> "files removed"
      [] ~n /\ ~u /\ ~r -> "index is current"

\* C3: without a full-rebuild rule, needs_index is true exactly when one of
\* the lists is non-empty, full_rebuild is false, and the reason is the joined
\* phrases of the non-empty lists ("index is current" exactly when none is).
C3_IncrementalReason ==
    (Planned /\ NoRuleHolds) =>
        LET n == last.plan.new_files # <<>>
            u == last.plan.updated_files # <<>>
            r == last.plan.removed_files # <<>>
        IN  /\ last.plan.needs_index = (n \/ u \/ r)
            /\ last.plan.full_rebuild = FALSE
            /\ last.plan.reason = ExpectedReason(n, u, r)
            /\ (last.plan.reason = "index is current") = (~n /\ ~u /\ ~r)

\* only removals: the plan still asks for an index run
C3_Witness ==
    /\ Planned /\ NoRuleHolds
    /\ last.plan.new_files = <<>> /\ last.plan.updated_files = <<>>
    /\ last.plan.removed_files # <<>>
    /\ last.plan.reason = "files removed"


---------------------------------------------------------------------------
(* Claims about replace_index and apply_file_updates (checked under       *)
(* SpecStore)                                                             *)

Replaced == last.op = "replace_index"
Applied == last.op = "apply_file_updates"

\* the row a chunk and its vector are stored as
ExpectedRow(chunk, vector) ==
    [id |-> chunk.id, file_path |-> chunk.file_path, chunk_index |-> chunk.chunk_index,
     start_char |-> chunk.start_char, end_char |-> chunk.end_char, text |-> chunk.text,
     embedding |-> vector, embedding_dim |-> Len(vector),
     embedding_norm |-> CHOOSE n \in 0..10 : n * n = SumSquares(vector)]

\* the rows of the chunks supplied to the last call, in the order supplied
SuppliedRows == [i \in 1..Len(last.chunks) |-> ExpectedRow(last.chunks[i], last.embeddings[i])]

\* the metadata names the configuration given to the last call
MetadataNamesCall ==
    /\ DOMAIN db.metadata = {"indexed_root", "embedding_model", "chunk_size",
                             "chunk_overlap", "indexed_at"}
    /\ db.metadata["indexed_root"] = last.cfg.root
    /\ db.metadata["embedding_model"] = last.cfg.model
    /\ db.metadata["chunk_size"] = ToString(last.cfg.chunk_size)
    /\ db.metadata["chunk_overlap"] = ToString(last.cfg.chunk_overlap)
    /\ db.metadata["indexed_at"] = ToString(last.now)

\* C4: a replace_index that raises leaves the three tables as they were
\* before the call.
C4_ReplaceAllOrNothing ==
    (Replaced /\ last.error # "") => db = last.before

\* a replace_index that failed on a duplicate chunk id after it had deleted
\* the rows of a non-empty index and inserted new ones
C4_Witness ==
    /\ Replaced /\ last.error = "IntegrityError" /\ last.dirty
    /\ last.before.chunks # <<>> /\ last.before.files # <<>>
    /\ Len(last.chunks) = 2 /\ last.chunks[1].id = last.chunks[2].id
    /\ last.cfg.root # last.before.metadata["indexed_root"]

\* C5: an apply_file_updates that raises leaves the three tables as they
\* were before the call, so get_stats reports the previously committed index.
C5_ApplyAtomic ==
    (Applied /\ last.error # "") =>
        /\ db = last.before
        /\ GetStats(db) = GetStats(last.before)

\* an apply_file_updates that failed because an inserted chunk id collided
\* with a surviving row, after it had deleted rows of a removed path
C5_Witness ==
    /\ Applied /\ last.error = "IntegrityError" /\ last.dirty
    /\ last.removed_files # <<>>
    /\ \E i \in 1..Len(last.before.chunks) :
          last.before.chunks[i].file_path \in SetOf(last.removed_files)
    /\ \E i \in 1..Len(last.before.chunks), j \in 1..Len(last.chunks) :
          /\ last.before.chunks[i].id = last.chunks[j].id
          /\ last.before.chunks[i].file_path \notin
                SetOf(last.removed_files \o last.new_files \o last.updated_files)

\* C6: a successful apply_file_updates leaves no earlier chunk row of a
\* removed or updated path, no file row of a removed path, the current
\* (size, mtime) on the file rows of the new and updated paths, every
\* supplied chunk row, and the metadata of the call; the rows of the other
\* paths stay.
C6_ApplyEffect ==
    (Applied /\ last.error = "") =>
        LET rem == SetOf(last.removed_files)
            chg == SetOf(last.new_files) \cup SetOf(last.updated_files)
            gone == rem \cup SetOf(last.updated_files)
            kept == SelectSeq(last.before.chunks, LAMBDA row : row.file_path \notin rem \cup chg)
            entry(p) == last.all_files[CHOOSE i \in 1..Len(last.all_files) :
                                          last.all_files[i].path = p]
        IN  /\ \A i \in 1..Len(db.chunks) :
                  db.chunks[i].file_path \in gone => i > Len(kept)
            /\ db.chunks = kept \o SuppliedRows
            /\ \A p \in rem \ chg : p \notin DOMAIN db.files
            /\ DOMAIN db.files = (DOMAIN last.before.files \ rem) \cup chg
            /\ \A p \in chg : db.files[p] = [size |-> entry(p).size,
                                             mtime_ns |-> entry(p).mtime_ns]
            /\ \A p \in DOMAIN db.files \ chg : db.files[p] = last.before.files[p]
            /\ MetadataNamesCall

\* a successful patch that removes one indexed path and updates another
\* whose earlier chunk row has an id that is not supplied again
C6_Witness ==
    /\ Applied /\ last.error = ""
    /\ last.removed_files = <<"b.py">> /\ last.updated_files = <<"a.py">>
    /\ \E i \in 1..Len(last.before.chunks) : last.before.chunks[i].file_path = "b.py"
    /\ \E i \in 1..Len(last.before.chunks) :
          /\ last.before.chunks[i].file_path = "a.py"
          /\ \A j \in 1..Len(last.chunks) : last.chunks[j].id # last.before.chunks[i].id
    /\ last.chunks # <<>>
    /\ last.before.files["a.py"].size # db.files["a.py"].size

\* C7: after a successful replace_index the files table holds exactly the
\* supplied file records, the chunks table exactly the supplied chunks, and
\* the metadata the root, model, chunk size and chunk overlap of the call.
C7_ReplaceEffect ==
    (Replaced /\ last.error = "") =>
        /\ DOMAIN db.files = {last.files[i].path : i \in 1..Len(last.files)}
        /\ \A i \in 1..Len(last.files) :
              db.files[last.files[i].path] = [size |-> last.files[i].size,
                                              mtime_ns |-> last.files[i].mtime_ns]
        /\ db.chunks = SuppliedRows
        /\ MetadataNamesCall

\* a successful replace_index over an index that held another file, other
\* chunks and another configuration
C7_Witness ==
    /\ Replaced /\ last.error = ""
    /\ \E p \in DOMAIN last.before.files : p \notin DOMAIN db.files
    /\ last.before.chunks # <<>> /\ db.chunks # <<>>
    /\ \A i \in 1..Len(last.before.chunks) : last.before.chunks[i].file_path \notin DOMAIN db.files
    /\ last.before.metadata["chunk_size"] # db.metadata["chunk_size"]


---------------------------------------------------------------------------
(* Claim about readers during a mutating call (checked under SpecTx) *)

\* the database a call leaves, computed by the method as a whole
StateAfterCall ==
    IF tx.op = "replace_index"
    THEN ReplaceIndex(tx.before, tx.cfg.root, tx.files, tx.chunks, tx.embeddings,
                      tx.cfg.model, tx.cfg.chunk_size, tx.cfg.chunk_overlap, tx.now).db
    ELSE ApplyFileUpdates(tx.before, tx.cfg.root, tx.files, tx.chunks, tx.embeddings,
                          tx.new_files, tx.updated_files, tx.removed_files, tx.cfg.model,
                          tx.cfg.chunk_size, tx.cfg.chunk_overlap, tx.now).db

\* C9: what a reader reads during a replace_index or apply_file_updates call
\* is the whole state before the call or, once the call has ended, the whole
\* state after it; it never holds a chunk row without its file row.
C9_ReaderSeesBeforeOrAfter ==
    seen.read =>
        /\ \/ seen.db = tx.before
           \/ tx.pc = "done" /\ seen.db = StateAfterCall
        /\ \A i \in 1..Len(seen.db.chunks) :
              seen.db.chunks[i].file_path \in DOMAIN seen.db.files

\* a reader has read while the writing connection held new file rows whose
\* chunk rows were not inserted yet
C9_Witness ==
    /\ seen.read
    /\ tx.pc = "insert_chunks" /\ tx.chunks # <<>>
    /\ tx.work.files # <<>> /\ tx.work.chunks = <<>>
    /\ tx.work.files # tx.before.files
    /\ tx.before.chunks # <<>>

---------------------------------------------------------------------------
(* Claims about RAGrep.index (checked under Spec) *)

Indexed == last.op = "index"

\* the call returned a result with indexed = True
IndexSucceeded == Indexed /\ last.error = "" /\ last.result.indexed

\* the rows of the chunks table that belong to a path, in rowid order
RowsOf(store, p) == SelectSeq(store.chunks, LAMBDA row : row.file_path = p)

\* the rows a file row stands for when it is chunked under a configuration
RowsUnder(p, file_row, chunk_size, chunk_overlap) ==
    LET chunks == FileChunks(p, file_row, chunk_size, chunk_overlap)
    IN  [i \in 1..Len(chunks) |-> ExpectedRow(chunks[i], Embed(chunks[i].text))]

\* the catalog the call scanned
ScannedTable ==
    FilesTable(DiscoverPath(DirOf(disk, last.path), last.path, IndexIgnorePaths).file_records)

\* C8: index metadata is written only by an index call that succeeds, in
\* the transaction that commits its rows.  In every committed state the
\* metadata is absent and the tables are empty, or it holds the five keys
\* and every file row has exactly the chunk rows of its file under the
\* recorded chunk size and overlap.  A call that raised and a call that
\* found the index current leave the whole database as it was; a call that
\* indexed leaves the root and configuration it was given, with the
\* catalog it scanned.
C8_MetadataCommittedWithIndex ==
    /\ DOMAIN db.metadata = {} => DOMAIN db.files = {} /\ db.chunks = <<>>
    /\ DOMAIN db.metadata # {} =>
          /\ DOMAIN db.metadata = {"indexed_root", "embedding_model", "chunk_size",
                                   "chunk_overlap", "indexed_at"}
          /\ \A i \in 1..Len(db.chunks) : db.chunks[i].file_path \in DOMAIN db.files
          /\ \A p \in DOMAIN db.files :
                RowsOf(db, p) = RowsUnder(p, db.files[p],
                                          ParseInt(db.metadata["chunk_size"]),
                                          ParseInt(db.metadata["chunk_overlap"]))
    /\ Indexed /\ ~IndexSucceeded => db = last.before
    /\ IndexSucceeded =>
          /\ \E now \in Times :
                db.metadata = MetadataOf([root |-> last.path, model |-> last.cfg.model,
                                          chunk_size |-> last.cfg.chunk_size,
                                          chunk_overlap |-> last.cfg.chunk_overlap], now)
          /\ db.files = ScannedTable

\* an index call under a new chunk size raised after an earlier call had
\* succeeded and left chunk rows
C8_Witness ==
    /\ Indexed
    /\ DOMAIN last.before.metadata # {}
    /\ last.before.chunks # <<>>
    /\ last.error # ""
    /\ last.plan.needs_index
    /\ last.before.metadata["chunk_size"] # ToString(last.cfg.chunk_size)

\* the plan of the call was an incremental patch
Incremental == Indexed /\ last.plan.needs_index /\ ~last.plan.full_rebuild

\* the paths the plan names as new or updated
ChangedSet == SetOf(last.plan.new_files) \cup SetOf(last.plan.updated_files)

\* the paths indexed before the call that the plan leaves alone
UnchangedSet == DOMAIN last.before.files \ (ChangedSet \cup SetOf(last.plan.removed_files))

\* C10: on an incremental index the files chunked are exactly the new and
\* updated files and the texts embedded are the texts of their chunks; when
\* the call returns, every unchanged file has the file row and the chunk
\* rows it had before the call, chunks_indexed is the number of chunk rows
\* of the new and updated files, and chunks is the number of chunk rows in
\* the store.
C10_IncrementalTouchesChangedOnly ==
    Incremental =>
        /\ SetOf(last.processed) = ChangedSet
        /\ Len(last.processed) = Cardinality(ChangedSet)
        /\ last.texts =
              LET chunks == ProcessFiles(last.plan.new_files \o last.plan.updated_files,
                                         disk, last.cfg.chunk_size, last.cfg.chunk_overlap)
              IN  [i \in 1..Len(chunks) |-> chunks[i].text]
        /\ last.error = "" =>
              /\ \A p \in UnchangedSet :
                    /\ p \in DOMAIN db.files
                    /\ db.files[p] = last.before.files[p]
                    /\ RowsOf(db, p) = RowsOf(last.before, p)
              /\ last.result.chunks_indexed =
                    Len(SelectSeq(db.chunks, LAMBDA row : row.file_path \in ChangedSet))
              /\ last.result.chunks = Len(db.chunks)
              /\ last.result.indexed_files = Cardinality(ChangedSet)

\* one file of two non-empty indexed files was rewritten, and the call
\* reports more chunks in the store than it indexed
C10_Witness ==
    /\ Incremental
    /\ last.error = ""
    /\ last.result.updated_files = <<"a.py">>
    /\ last.result.new_files = <<>>
    /\ last.result.removed_files = <<>>
    /\ UnchangedSet = {"b.py"}
    /\ RowsOf(last.before, "b.py") # <<>>
    /\ RowsOf(db, "a.py") # RowsOf(last.before, "a.py")
    /\ last.result.chunks_indexed >= 1
    /\ last.result.chunks > last.result.chunks_indexed

---------------------------------------------------------------------------
(* Claims about search (checked under SpecSearch) *)

Searched == last.op = "search"

\* the stored rows search scores for the query of the call, in rowid order
EligibleRows == SelectSeq(db.chunks, LAMBDA row : Scored(row, last.query))

\* the position of the row with an id in the chunks table
RowIndex(id) == CHOOSE k \in 1..Len(db.chunks) : db.chunks[k].id = id

\* a score is the cosine similarity of a row and the query of the call
IsCosine(score, row) ==
    /\ score.den > 0
    /\ score.num * (VectorNorm(last.query) * row.embedding_norm)
          = Dot(row.embedding, last.query) * score.den

\* the ids of the matches of the call
MatchIds == {last.matches[i].id : i \in 1..Len(last.matches)}

\* C19: for limit > 0 and a query of non-zero norm, search returns
\* min(limit, number of eligible rows) results, each a different eligible
\* row with its cosine similarity as score, in order of non-increasing
\* score; no eligible row left out scores higher than a returned one; the
\* distance of every result is 1 - score.  (Eligible: the row has the
\* dimension of the query and a non-zero recorded norm.)
C19_SearchTopK ==
    Searched /\ last.limit > 0 /\ VectorNorm(last.query) # 0 =>
        LET m == last.matches
            n == Len(EligibleRows)
        IN  /\ Len(m) = IF last.limit < n THEN last.limit ELSE n
            /\ \A i, j \in 1..Len(m) : i < j =>
                  /\ ~ScoreLess(m[i].score, m[j].score)
                  /\ m[i].id # m[j].id
            /\ \A i \in 1..Len(m) :
                  /\ \E k \in 1..n :
                        /\ EligibleRows[k].id = m[i].id
                        /\ EligibleRows[k].text = m[i].text
                        /\ IsCosine(m[i].score, EligibleRows[k])
                  /\ m[i].distance.den = m[i].score.den
                  /\ m[i].distance.num + m[i].score.num = m[i].score.den
            /\ \A k \in 1..n : EligibleRows[k].id \notin MatchIds =>
                  \A i \in 1..Len(m) :
                     Dot(EligibleRows[k].embedding, last.query) * m[i].score.den
                        <= m[i].score.num
                              * (VectorNorm(last.query) * EligibleRows[k].embedding_norm)

\* a search with limit 2 over three eligible rows of three different scores
\* stored in ascending order of score, next to a row that is not eligible
C19_Witness ==
    /\ Searched
    /\ last.limit = 2
    /\ Len(EligibleRows) = 3
    /\ Len(last.matches) = 2
    /\ ScoreLess(last.matches[2].score, last.matches[1].score)
    /\ RowIndex(last.matches[1].id) > RowIndex(last.matches[2].id)
    /\ \E k \in 1..3 : EligibleRows[k].id \notin MatchIds

\* C20: results of equal score come in the order of their rows: of two
\* returned rows of the same score the one stored first comes first, and a
\* row left out by the limit is stored after every returned row of its
\* score.
C20_TiesKeepRowOrder ==
    Searched =>
        LET m == last.matches
        IN  /\ \A i, j \in 1..Len(m) :
                  (i < j /\ m[i].score = m[j].score) =>
                      RowIndex(m[i].id) < RowIndex(m[j].id)
            /\ \A k \in 1..Len(EligibleRows) : EligibleRows[k].id \notin MatchIds =>
                  \A i \in 1..Len(m) :
                      IsCosine(m[i].score, EligibleRows[k]) =>
                          RowIndex(m[i].id) < RowIndex(EligibleRows[k].id)

\* two rows of equal score were returned after a row of a higher score
\* that is stored behind them
C20_Witness ==
    /\ Searched
    /\ Len(last.matches) = 3
    /\ ScoreLess(last.matches[2].score, last.matches[1].score)
    /\ last.matches[2].score = last.matches[3].score
    /\ last.matches[2].score.num # 0
    /\ RowIndex(last.matches[1].id) > RowIndex(last.matches[3].id)

---------------------------------------------------------------------------
(* Further claims about RAGrep.index (checked under Spec) *)

\* the metadata of a store names a root and a configuration
MatchesRecorded(store, path, cfg) ==
    /\ DOMAIN store.metadata # {}
    /\ store.metadata["indexed_root"] = path
    /\ store.metadata["embedding_model"] = cfg.model
    /\ store.metadata["chunk_size"] = ToString(cfg.chunk_size)
    /\ store.metadata["chunk_overlap"] = ToString(cfg.chunk_overlap)

\* the call made one of the given calls to a collaborator
Called(names) == \E i \in 1..Len(last.calls) : last.calls[i] \in names

\* C11: when the plan needs no index, index returns without chunking,
\* without calling the embedding backend and without a writing call to the
\* store: files, chunks and metadata (indexed_at included) are as before,
\* and the result has indexed = False, chunks_indexed = 0,
\* indexed_files = 0, full_rebuild = False and three empty path lists.
C11_NoOpLeavesStore ==
    Indexed /\ ~last.plan.needs_index =>
        /\ last.error = ""
        /\ db = last.before
        /\ last.processed = <<>> /\ last.texts = <<>>
        /\ ~Called({"process_files", "embed_texts", "replace_index", "apply_file_updates"})
        /\ last.result =
              [indexed |-> FALSE,
               reason |-> last.plan.reason,
               files |-> Cardinality(DOMAIN ScannedTable),
               chunks |-> Len(last.before.chunks),
               chunks_indexed |-> 0,
               indexed_files |-> 0,
               new_files |-> <<>>,
               updated_files |-> <<>>,
               removed_files |-> <<>>,
               full_rebuild |-> FALSE]

\* an index call found nothing to do on a store that holds chunks
C11_Witness ==
    /\ Indexed
    /\ ~last.plan.needs_index
    /\ last.before.chunks # <<>>
    /\ Len(last.calls) = 3

\* C12: after an index call that succeeded, by a full rebuild or by an
\* incremental patch, a second call on the unchanged root with the same
\* configuration reports indexed = False with reason "index is current"
\* and leaves the store as it is; and every call that finds the root and
\* configuration it is given recorded, with the catalog it scans, is such a
\* call: the file count and the chunk count it reports are those stored
\* before it.
C12_SecondIndexIsCurrent ==
    /\ IndexSucceeded =>
          \A now \in Times, gateway \in Gateways :
             LET second == IndexCall(db, DirOf(disk, last.path), last.path, last.cfg,
                                     FALSE, now, gateway)
             IN  /\ second.error = ""
                 /\ ~second.plan.needs_index
                 /\ ~second.result.indexed
                 /\ second.result.reason = "index is current"
                 /\ second.db = db
                 /\ second.result.files = Cardinality(DOMAIN db.files)
                 /\ second.result.chunks = Len(db.chunks)
    /\ (/\ Indexed /\ ~last.force
        /\ MatchesRecorded(last.before, last.path, last.cfg)
        /\ ScannedTable = last.before.files) =>
          /\ last.error = ""
          /\ ~last.plan.needs_index
          /\ ~last.result.indexed
          /\ last.result.reason = "index is current"
          /\ db = last.before
          /\ last.result.files = Cardinality(DOMAIN last.before.files)
          /\ last.result.chunks = Len(last.before.chunks)

\* a second call on two indexed files reported "index is current"
C12_Witness ==
    /\ Indexed /\ ~last.force
    /\ MatchesRecorded(last.before, last.path, last.cfg)
    /\ ScannedTable = last.before.files
    /\ Cardinality(DOMAIN last.before.files) = 2
    /\ Len(last.before.chunks) >= 2
    /\ last.result.reason = "index is current"

\* the configuration of the call differs from the one recorded for its root
ConfigChanged ==
    /\ DOMAIN last.before.metadata # {}
    /\ last.before.metadata["indexed_root"] = last.path
    /\ \/ last.before.metadata["embedding_model"] # last.cfg.model
       \/ last.before.metadata["chunk_size"] # ToString(last.cfg.chunk_size)
       \/ last.before.metadata["chunk_overlap"] # ToString(last.cfg.chunk_overlap)

\* C13: an index call whose embedding model, chunk size or chunk overlap
\* differs from the one recorded by the last successful index of the same
\* root plans a full rebuild whatever the files are, also when no file was
\* added, changed or removed; when it returns, the result has
\* full_rebuild = True, the store was replaced and records the new
\* configuration.
C13_ConfigChangeRebuilds ==
    Indexed /\ ~last.force /\ ConfigChanged =>
        /\ last.plan.needs_index
        /\ last.plan.full_rebuild
        /\ last.plan.reason \in {"embedding model changed", "chunk size changed",
                                 "chunk overlap changed"}
        /\ SetOf(last.processed) = DOMAIN ScannedTable
        /\ ~Called({"apply_file_updates"})
        /\ last.error = "" =>
              /\ last.result.indexed
              /\ last.result.full_rebuild
              /\ Called({"replace_index"})
              /\ MatchesRecorded(db, last.path, last.cfg)

\* a call with another chunk overlap rebuilt an index whose files had not
\* changed
C13_Witness ==
    /\ Indexed /\ ~last.force /\ ConfigChanged
    /\ last.error = ""
    /\ last.plan.reason = "chunk overlap changed"
    /\ ScannedTable = last.before.files
    /\ last.before.chunks # <<>>
    /\ last.result.full_rebuild
    /\ db.chunks # last.before.chunks

\* the ids of the chunk rows a store holds for a set of paths
IdsOf(store, paths) ==
    {store.chunks[i].id : i \in {k \in 1..Len(store.chunks) : store.chunks[k].file_path \in paths}}

\* the number of chunk rows a store holds for a set of paths
CountOf(store, paths) ==
    Len(SelectSeq(store.chunks, LAMBDA row : row.file_path \in paths))

\* the ids search returns from a store
Found(store, query, limit) ==
    {Search(store, query, limit)[i].id : i \in 1..Len(Search(store, query, limit))}

\* C14: after an incremental index that returns, removed_files lists
\* exactly the indexed paths that are no longer in the directory; the file
\* row and the chunk rows of each are gone and no search returns a chunk of
\* them; the chunk rows of the files that were not touched are as before;
\* the chunk count is the count before the call minus the chunks stored for
\* the removed (and the replaced) files plus the chunks indexed by the call.
C14_RemovedFileLeavesIndex ==
    Incremental /\ last.error = "" =>
        LET removed == SetOf(last.result.removed_files)
            updated == SetOf(last.result.updated_files)
        IN  /\ removed = DOMAIN last.before.files \ DOMAIN ScannedTable
            /\ StrictlySorted(last.result.removed_files)
            /\ \A p \in removed :
                  /\ p \notin DOMAIN db.files
                  /\ RowsOf(db, p) = <<>>
            /\ \A query \in SearchQueries, limit \in SearchLimits :
                  Found(db, query, limit) \cap IdsOf(last.before, removed) = {}
            /\ \A p \in UnchangedSet : RowsOf(db, p) = RowsOf(last.before, p)
            /\ Len(db.chunks) = Len(last.before.chunks)
                                   - CountOf(last.before, removed)
                                   - CountOf(last.before, updated)
                                   + last.result.chunks_indexed

\* b.py was deleted and nothing else changed: the index lost the chunks of
\* b.py, which a search found before the call, and kept those of a.py
C14_Witness ==
    /\ Incremental /\ last.error = ""
    /\ last.result.removed_files = <<"b.py">>
    /\ last.result.new_files = <<>> /\ last.result.updated_files = <<>>
    /\ RowsOf(last.before, "b.py") # <<>>
    /\ RowsOf(db, "a.py") # <<>>
    /\ Len(db.chunks) = Len(last.before.chunks) - Len(RowsOf(last.before, "b.py"))
    /\ \E query \in SearchQueries :
          Found(last.before, query, MaxLimit) \cap IdsOf(last.before, {"b.py"}) # {}

\* C17: when the embedding backend raises during index, the exception
\* reaches the caller, no writing method of the store was called, and the
\* files, chunks and metadata tables are as before the call, on the full
\* rebuild path and on the incremental path.
C17_GatewayErrorLeavesStore ==
    Indexed /\ Called({"embed_texts"}) /\ last.error = "EmbeddingError" =>
        /\ db = last.before
        /\ last.result = NoResult
        /\ ~Called({"replace_index", "apply_file_updates", "get_stats"})

\* the backend raised on the incremental path, for the chunks of a file
\* that has changed, while the store held chunks of that file
C17_Witness ==
    /\ Indexed
    /\ last.error = "EmbeddingError"
    /\ ~last.plan.full_rebuild
    /\ last.plan.updated_files # <<>>
    /\ last.before.chunks # <<>>
    /\ last.texts # <<>>

---------------------------------------------------------------------------
(* Claims about the argument checks of the store (checked under SpecStore) *)

\* the new and updated paths of the call that have no record in all_files
MissingPaths ==
    SetOf(last.new_files \o last.updated_files)
        \ {last.all_files[i].path : i \in 1..Len(last.all_files)}

\* C15: apply_file_updates raises, without a statement sent to the
\* database and with the three tables as before, whenever a path of
\* new_files or updated_files has no record in all_files; a call that
\* returns has left a file row for every new and updated path.
C15_MissingRecordFails ==
    /\ Applied /\ MissingPaths # {} =>
          /\ last.error = "ValueError"
          /\ ~last.dirty
          /\ db = last.before
    /\ Applied /\ last.error = "" =>
          /\ MissingPaths = {}
          /\ SetOf(last.new_files \o last.updated_files) \subseteq DOMAIN db.files

\* a call with as many vectors as chunks named an updated path without a
\* record, though its other changed path had one, on a non-empty store
C15_Witness ==
    /\ Applied
    /\ Len(last.chunks) = Len(last.embeddings)
    /\ MissingPaths # {}
    /\ SetOf(last.new_files \o last.updated_files) \ MissingPaths # {}
    /\ last.before.chunks # <<>>
    /\ last.error = "ValueError"

\* C16: replace_index and apply_file_updates raise, without a statement
\* sent to the database, whenever the number of chunks differs from the
\* number of embeddings: no row is deleted or inserted and the metadata is
\* as before.
C16_CountMismatchFails ==
    (Replaced \/ Applied) /\ Len(last.chunks) # Len(last.embeddings) =>
        /\ last.error = "ValueError"
        /\ ~last.dirty
        /\ db.files = last.before.files
        /\ db.chunks = last.before.chunks
        /\ db.metadata = last.before.metadata

\* a replace_index was given one vector less than chunks, for chunks that
\* it could have stored, on a non-empty store
C16_Witness ==
    /\ Replaced
    /\ Len(last.chunks) = 2 /\ Len(last.embeddings) = 1
    /\ last.chunks[1].id # last.chunks[2].id
    /\ \A i \in 1..2 : \E j \in 1..Len(last.files) : last.files[j].path = last.chunks[i].file_path
    /\ last.before.chunks # <<>>
    /\ last.error = "ValueError"

---------------------------------------------------------------------------
(* Claim about RAGrep.recall (checked under SpecRecall) *)

Recalled == last.op = "recall"

\* the path recall is to index: the path it was given, else the root the
\* store recorded before the call, else the current directory
ExpectedIndexPath ==
    IF last.path \notin {"None", ""} THEN last.path
    ELSE IF "indexed_root" \in DOMAIN last.before.metadata
         THEN last.before.metadata["indexed_root"]
    ELSE "."

\* how often recall made a call
CountCalls(name) == Cardinality({i \in 1..Len(last.calls) : last.calls[i] = name})

\* the calls of recall from the index on
CallsFromIndex ==
    IF last.calls # <<>> /\ Head(last.calls) = "get_indexed_root"
    THEN Tail(last.calls) ELSE last.calls

\* C18: with auto_index set, recall first runs index with force = False on
\* the path it was given, else on the root recorded in the store, else on
\* ".", and only then embeds the query once and searches once; when index
\* raises, recall raises and does neither.  Without auto_index recall does
\* not index, leaves the store as it is and reports auto_index as None.
\* Whenever recall returns, it has embedded once and searched once, the
\* matches are those of a search of the store as it then is, and count is
\* their number.
C18_RecallIndexesThenSearches ==
    Recalled =>
        /\ last.auto_index =>
              /\ last.index_path = ExpectedIndexPath
              /\ CallsFromIndex \in { <<"index">>, <<"index", "embed_query">>,
                                      <<"index", "embed_query", "search">> }
              /\ (Head(last.calls) = "get_indexed_root") = (last.path \in {"None", ""})
              /\ \E now \in Times, gateway \in Gateways :
                    LET first == IndexCall(last.before, DirOf(disk, ExpectedIndexPath),
                                           ExpectedIndexPath, RecallConfig, FALSE, now,
                                           gateway)
                    IN  /\ first.db = db
                        /\ first.error # "" <=> CallsFromIndex = <<"index">>
                        /\ first.error # "" => last.error = first.error
                        /\ last.error = "" => last.result.auto_index = first.result
        /\ ~last.auto_index =>
              /\ last.index_path = "None"
              /\ CountCalls("index") = 0 /\ CountCalls("get_indexed_root") = 0
              /\ db = last.before
              /\ last.error = "" => last.result.auto_index = NoIndexResult
        /\ last.error = "" =>
              /\ CountCalls("embed_query") = 1 /\ CountCalls("search") = 1
              /\ last.calls[Len(last.calls) - 1] = "embed_query"
              /\ last.calls[Len(last.calls)] = "search"
              /\ last.result.query = last.query
              /\ last.result.matches = Search(db, Embed(last.query), last.limit)
              /\ last.result.count = Len(last.result.matches)

\* a recall without a path indexed the recorded root, whose files had
\* changed, and then found chunks
C18_Witness ==
    /\ Recalled /\ last.auto_index /\ last.path = "None"
    /\ DOMAIN last.before.metadata # {}
    /\ last.index_path = "/r1"
    /\ last.error = ""
    /\ last.result.auto_index.indexed
    /\ db # last.before
    /\ last.result.count >= 1

---------------------------------------------------------------------------
(* Further claims about search (checked under SpecSearch) *)

\* the positions of the stored rows whose embedding is the query of the call
SelfRows ==
    {i \in 1..Len(db.chunks) : /\ db.chunks[i].embedding = last.query
                               /\ db.chunks[i].embedding_norm # 0}

\* b is a positive multiple of a
Parallel(a, b) ==
    /\ Len(a) = Len(b)
    /\ \A k, l \in 1..Len(a) : a[k] * b[l] = a[l] * b[k]
    /\ \E k \in 1..Len(a) : a[k] * b[k] > 0

One == [num |-> 1, den |-> 1]

SameDimensionOnly ==
    [db EXCEPT !.chunks =
        SelectSeq(@, LAMBDA row : row.embedding_dim = Len(last.query))]

\* C22: no result of a search is a row whose embedding dimension differs
\* from the dimension of the query, and the results are the results of the
\* same search over the store without those rows.
C22_MismatchedRowsSkipped ==
    Searched =>
        /\ \A i \in 1..Len(last.matches) :
              db.chunks[RowIndex(last.matches[i].id)].embedding_dim = Len(last.query)
        /\ last.matches = Search(SameDimensionOnly, last.query, last.limit)

\* the first stored row has another dimension than the query, and two rows
\* stored after it were returned
C22_Witness ==
    /\ Searched
    /\ Len(db.chunks) = 3
    /\ db.chunks[1].embedding_dim # Len(last.query)
    /\ db.chunks[1].embedding_norm # 0
    /\ Len(last.matches) = 2

\* every component of the query of the call is 0 (the empty query included)
ZeroQuery == \A k \in 1..Len(last.query) : last.query[k] = 0

\* C23: a search whose query is empty or has only zero components returns
\* the empty list, whatever the store holds.
C23_ZeroQueryFindsNothing ==
    Searched /\ ZeroQuery => last.matches = <<>>

\* a search with the query <<0, 0>> and a positive limit over a store that
\* holds a row of dimension 2 and non-zero norm
C23_Witness ==
    /\ Searched
    /\ last.query = <<0, 0>>
    /\ last.limit >= 1
    /\ \E i \in 1..Len(db.chunks) :
          db.chunks[i].embedding_dim = 2 /\ db.chunks[i].embedding_norm # 0
    /\ last.matches = <<>>

\* C24: a search with limit 0, or a negative limit, returns the empty list,
\* whatever the store and the query are.
C24_NoLimitNoResults ==
    Searched /\ last.limit <= 0 => last.matches = <<>>

\* a search with limit 0 and a query that two stored rows are eligible for
C24_Witness ==
    /\ Searched
    /\ last.limit = 0
    /\ ~ZeroQuery
    /\ Len(EligibleRows) >= 2
    /\ last.matches = <<>>

---------------------------------------------------------------------------
(* Claims about DocumentProcessor (checked under SpecChunk) *)

\* chunk_text has returned
Chunked == last.op = "returned"

\* the processor has the configuration the chunker requires
ValidChunking ==
    0 <= last.self.chunk_overlap /\ last.self.chunk_overlap < last.self.chunk_size

\* the loop and the recursive definition of chunk_text agree
ChunkLoopIsChunkText ==
    Chunked /\ ValidChunking =>
        last.chunks = ChunkText(last.text, last.self.chunk_size, last.self.chunk_overlap)

\* the chunks chunk_text returned and the characters a chunk holds:
\* positions WindowStart(i) .. WindowEnd(i) - 1 of the text
WindowStart(i) == last.chunks[i].start_char
WindowEnd(i) == last.chunks[i].start_char + Len(last.chunks[i].text)

Min(a, b) == IF a < b THEN a ELSE b

\* C25: for 0 <= overlap < size the windows of chunk_text hold text of the
\* input, together cover exactly the positions 0..len-1, are at most size
\* long, consecutive windows share exactly overlap characters, and only the
\* last window is shorter than size.
C25_WindowsCoverAndOverlap ==
    Chunked /\ ValidChunking =>
        LET n == Len(last.chunks)
            size == last.self.chunk_size
            overlap == last.self.chunk_overlap
        IN  /\ \A i \in 1..n :
                  /\ 0 <= WindowStart(i) /\ WindowEnd(i) <= Len(last.text)
                  /\ last.chunks[i].text
                        = [k \in 1..(WindowEnd(i) - WindowStart(i)) |->
                              last.text[WindowStart(i) + k]]
                  /\ Len(last.chunks[i].text) <= size
                  /\ i < n => Len(last.chunks[i].text) = size
            /\ \A p \in 0..(Len(last.text) - 1) :
                  \E i \in 1..n : WindowStart(i) <= p /\ p < WindowEnd(i)
            /\ \A i \in 1..(n - 1) : WindowEnd(i) - WindowStart(i + 1) = overlap

\* C26: for 0 <= overlap < size chunk_text returns no chunk for the empty
\* text and exactly one chunk for a text of 1..size characters.
C26_ShortTextOneChunk ==
    Chunked /\ ValidChunking =>
        /\ last.text = <<>> => last.chunks = <<>>
        /\ (last.text # <<>> /\ Len(last.text) <= last.self.chunk_size) =>
              Len(last.chunks) = 1

\* C27: a processor constructed with a negative overlap or an overlap that
\* is not smaller than the chunk size is rejected by the constructor.
C27_InvalidConfigRejected ==
    (last.op = "constructed" /\ ~ValidChunking) => last.error # ""

\* C30: for 0 <= overlap < size every chunk records the end
\* min(start + size, len), which is start plus the length of its text; the
\* next chunk starts at that end minus overlap; only the last chunk ends
\* at len.
C30_StopsAtEndOfText ==
    Chunked /\ ValidChunking =>
        LET n == Len(last.chunks)
        IN  /\ \A i \in 1..n :
                  /\ last.chunks[i].end_char
                        = Min(last.chunks[i].start_char + last.self.chunk_size,
                              Len(last.text))
                  /\ last.chunks[i].end_char = WindowEnd(i)
                  /\ (last.chunks[i].end_char = Len(last.text)) = (i = n)
            /\ \A i \in 1..(n - 1) :
                  last.chunks[i + 1].start_char
                     = last.chunks[i].end_char - last.self.chunk_overlap

---------------------------------------------------------------------------
(* Claims about the ignore paths of index (checked under SpecIgnore) *)

\* the source files of the root: its files that lie at or under no ignore
\* path of the instance
SourceTable == [p \in DOMAIN disk \ IgnoredFiles |-> disk[p]]

\* the call indexed the root "/r1": an index call, or a recall that indexed
\* first
IndexedRoot ==
    \/ Indexed /\ last.path = "/r1"
    \/ Recalled /\ last.auto_index /\ last.index_path = "/r1"

\* what the index of the call reported
IndexReport == IF Indexed THEN last.result ELSE last.result.auto_index

\* the store held the source files and the configuration of the instance
\* before the call
SourcesWereCurrent ==
    /\ MatchesRecorded(last.before, "/r1", RecallConfig)
    /\ last.before.files = SourceTable

\* C28: the catalog of an index call, or of the index an auto-index recall
\* runs, holds none of the database file, the files of its ".legacy"
\* sibling and the files of the model directory: the files it counts and
\* stores are the other files of the root.  When those are the files the
\* store recorded under the same configuration, the call reports
\* indexed = False with reason "index is current" and leaves the store as
\* it is, whatever files exist at the ignored places.
C28_IgnoredFilesNeverScanned ==
    /\ DOMAIN db.files \cap IgnoredFiles = {}
    /\ \A i \in 1..Len(db.chunks) : db.chunks[i].file_path \notin IgnoredFiles
    /\ IndexedRoot /\ last.error = "" =>
          /\ IndexReport.files = Cardinality(DOMAIN SourceTable)
          /\ SetOf(IndexReport.new_files \o IndexReport.updated_files
                     \o IndexReport.removed_files) \cap IgnoredFiles = {}
          /\ IndexReport.indexed => db.files = SourceTable
          /\ (SourcesWereCurrent /\ (Indexed => ~last.force)) =>
                /\ ~IndexReport.indexed
                /\ IndexReport.reason = "index is current"
                /\ db = last.before

\* a recall with auto-index found the index current although the database
\* file, a file of the legacy copy and a rewritten file of the model
\* directory lie under the root next to an indexed source file
C28_Witness ==
    /\ Recalled /\ last.auto_index
    /\ IgnoredFiles \subseteq DOMAIN disk
    /\ disk["models/m.py"].mtime_ns = 2
    /\ DOMAIN SourceTable # {}
    /\ last.error = ""
    /\ ~last.result.auto_index.indexed
    /\ last.result.auto_index.reason = "index is current"
    /\ last.result.count = 1

---------------------------------------------------------------------------
(* Claims about the opening of a store (checked under SpecOpen) *)

Opened == last.op = "open"

\* the data that lies in a storage: the data of the legacy directories and
\* the rows of the database file
StoredData(storage) ==
    {storage[p] : p \in {"db_path", "legacy_path"}} \ {NoEntry, DatabaseFile(0)}

\* C29: an opening that finds a directory of the legacy layout at db_path
\* leaves that directory at "<db_path>.legacy" and a fresh database file at
\* db_path, and no opening deletes data that was stored before it: the data
\* of every legacy directory and the rows of the database file are still
\* there after the opening.
C29_OpeningKeepsStoredData ==
    Opened =>
        /\ last.before.db_path.kind = "dir" =>
              /\ last.error = ""
              /\ disk.legacy_path = last.before.db_path
              /\ disk.db_path = DatabaseFile(0)
        /\ StoredData(last.before) \subseteq StoredData(disk)

---------------------------------------------------------------------------
(* Claims about the end of chunk_text (checked under SpecChunk) *)

\* C31: chunk_text ends for every text and every chunk_size and
\* chunk_overlap: a pass that does not leave the loop has moved start
\* forward, so that the loop is left after at most len(text) passes.
C31_ChunkTextTerminates ==
    last.op = "loop" /\ last.chunks # <<>> =>
        /\ last.start > last.chunks[Len(last.chunks)].start_char
        /\ Len(last.chunks) <= Len(last.text)

---------------------------------------------------------------------------
(* Claims about full rebuilds and stored vectors (checked under Spec) *)

\* the call went the way of a full rebuild
FullRebuild == Indexed /\ last.plan.needs_index /\ last.plan.full_rebuild

\* the paths the call scanned, sorted
ScannedList == Sorted(DOMAIN ScannedTable)

\* the rows of the files of a list, chunked and embedded anew under the
\* configuration of the call
RECURSIVE FreshRows(_)
FreshRows(paths) ==
    IF paths = <<>> THEN <<>>
    ELSE RowsUnder(paths[1], ScannedTable[paths[1]], last.cfg.chunk_size,
                   last.cfg.chunk_overlap)
         \o FreshRows(Tail(paths))

\* C32: on a full rebuild index hands every scanned file to process_files
\* and the text of every resulting chunk to the embedding backend, and
\* calls replace_index once and apply_file_updates never.  When it returns,
\* the chunk rows are those of the scanned files chunked and embedded anew,
\* and the result has full_rebuild = True, every scanned path in new_files,
\* no updated file and indexed_files = the number of scanned files, also
\* when files were indexed before.
C32_FullRebuildTakesEveryFile ==
    FullRebuild =>
        /\ last.processed = ScannedList
        /\ last.texts = [i \in 1..Len(FreshRows(ScannedList)) |->
                            FreshRows(ScannedList)[i].text]
        /\ CountCalls("apply_file_updates") = 0
        /\ CountCalls("process_files") = 1
        /\ CountCalls("embed_texts") = IF last.texts = <<>> THEN 0 ELSE 1
        /\ CountCalls("replace_index") = IF last.error = "EmbeddingError" THEN 0 ELSE 1
        /\ last.error = "" =>
              /\ db.chunks = FreshRows(ScannedList)
              /\ db.files = ScannedTable
              /\ last.result.indexed /\ last.result.full_rebuild
              /\ last.result.new_files = ScannedList
              /\ last.result.updated_files = <<>>
              /\ last.result.indexed_files = Len(ScannedList)
              /\ last.result.chunks_indexed = Len(db.chunks)
              /\ last.result.chunks = Len(db.chunks)

\* a forced index of two files that were both indexed before, unchanged,
\* under the same configuration
C32_Witness ==
    /\ FullRebuild /\ last.force /\ last.error = ""
    /\ MatchesRecorded(last.before, last.path, last.cfg)
    /\ last.before.files = ScannedTable
    /\ Len(ScannedList) = 2
    /\ last.before.chunks # <<>>
    /\ last.result.new_files = ScannedList

\* the rows the call inserted: the last rows of the chunks table, as many
\* as texts were embedded
InsertedRows ==
    SubSeq(db.chunks, Len(db.chunks) - Len(last.texts) + 1, Len(db.chunks))

\* a row holds a vector with its length and its norm
HoldsVector(row, vector) ==
    /\ row.embedding = vector
    /\ row.embedding_dim = Len(vector)
    /\ row.embedding_norm * row.embedding_norm = SumSquares(vector)

\* C33: chunks and vectors are paired by position: the i-th row an index
\* call inserts holds the i-th text it handed to the embedding backend and
\* the i-th vector the backend returned, with the length and norm of that
\* vector; so every stored row holds the vector of its own text.
C33_VectorsPairedByPosition ==
    /\ IndexSucceeded =>
          /\ Len(last.texts) <= Len(db.chunks)
          /\ \A i \in 1..Len(last.texts) :
                /\ InsertedRows[i].text = last.texts[i]
                /\ HoldsVector(InsertedRows[i], EmbedTexts(last.texts, "answers").vectors[i])
    /\ \A i \in 1..Len(db.chunks) : HoldsVector(db.chunks[i], Embed(db.chunks[i].text))

\* an index call inserted two rows with different vectors
C33_Witness ==
    /\ IndexSucceeded
    /\ Len(last.texts) >= 2
    /\ InsertedRows[1].embedding # InsertedRows[2].embedding
    /\ HoldsVector(InsertedRows[2], Embed(last.texts[2]))

---------------------------------------------------------------------------
(* Claims about files that cannot be decoded (checked under SpecScan) *)

\* a file of the directory that does not decode
Undecodable(p) == \E i \in 1..disk[p].size : Content(disk[p])[i] = "?"

\* C34: a file that cannot be decoded is skipped and logged and does not
\* abort the batch: an index call that chunks files returns without error,
\* every file it chunked that decodes has its chunk rows in the store, and
\* every file it chunked that does not decode is in the log and has no
\* chunk row.
C34_UndecodableFileSkipped ==
    (Indexed /\ last.plan.needs_index) =>
        /\ last.error = ""
        /\ last.result.indexed
        /\ \A p \in SetOf(last.processed) :
              IF Undecodable(p)
              THEN /\ p \in SetOf(last.skipped)
                   /\ p \in DOMAIN db.files
                   /\ RowsOf(db, p) = <<>>
              ELSE /\ p \notin SetOf(last.skipped)
                   /\ RowsOf(db, p) # <<>>
                   /\ RowsOf(db, p) = RowsUnder(p, db.files[p], last.cfg.chunk_size,
                                                last.cfg.chunk_overlap)

\* an index call chunked a file that does not decode before one that does
C34_Witness ==
    /\ IndexSucceeded
    /\ Len(last.processed) = 2
    /\ Undecodable(last.processed[1])
    /\ ~Undecodable(last.processed[2])
    /\ last.skipped = <<last.processed[1]>>
    /\ RowsOf(db, last.processed[2]) # <<>>

---------------------------------------------------------------------------
(* Claims about the calls that only read (checked under SpecRead) *)

\* the call was rag.stats()
StatsCalled == last.op = "stats"

\* the store was never indexed
NeverIndexed == DOMAIN db.metadata = {}

\* C35: stats reports the number of chunk rows and of file rows, and the
\* model, root, timestamp, chunk size and chunk overlap the metadata holds,
\* which are those of the last index call that committed: a call that
\* indexed leaves its own, any other index call leaves the metadata as it
\* was.  On a store that was never indexed stats reports 0 chunks, 0 files
\* and None for the rest.  stats makes no call to the embedding backend.
C35_StatsReportStore ==
    /\ StatsCalled =>
          /\ last.error = "" /\ last.calls = <<>>
          /\ last.result.total_chunks = Len(db.chunks)
          /\ last.result.total_files = Cardinality(DOMAIN db.files)
          /\ IF NeverIndexed
             THEN /\ last.result.total_chunks = 0 /\ last.result.total_files = 0
                  /\ last.result.embedding_model = "None"
                  /\ last.result.indexed_root = "None"
                  /\ last.result.indexed_at = "None"
                  /\ last.result.chunk_size = "None"
                  /\ last.result.chunk_overlap = "None"
             ELSE /\ last.result.embedding_model = db.metadata["embedding_model"]
                  /\ last.result.indexed_root = db.metadata["indexed_root"]
                  /\ last.result.indexed_at = db.metadata["indexed_at"]
                  /\ ToString(last.result.chunk_size) = db.metadata["chunk_size"]
                  /\ ToString(last.result.chunk_overlap) = db.metadata["chunk_overlap"]
    /\ IndexSucceeded =>
          /\ db.metadata["embedding_model"] = last.cfg.model
          /\ db.metadata["indexed_root"] = last.path
          /\ db.metadata["indexed_at"] = ToString(last.now)
          /\ db.metadata["chunk_size"] = ToString(last.cfg.chunk_size)
          /\ db.metadata["chunk_overlap"] = ToString(last.cfg.chunk_overlap)
    /\ (Indexed /\ ~IndexSucceeded) => db.metadata = last.before.metadata

\* stats on a store that holds two files and was indexed with no overlap
C35_Witness ==
    /\ StatsCalled
    /\ last.result.total_files = 2
    /\ last.result.total_chunks >= 2
    /\ last.result.chunk_overlap = 0
    /\ last.result.chunk_size = 2
    /\ last.result.embedding_model = "m1"

\* stats on a store that was never indexed
C35_WitnessNeverIndexed == StatsCalled /\ NeverIndexed /\ last.result.total_chunks = 0

---------------------------------------------------------------------------
(* Claims about the references between the tables (checked under SpecStore) *)

\* the paths that have a file row when the call inserts its chunks
FileRowsAtInsert ==
    IF Replaced THEN {last.files[i].path : i \in 1..Len(last.files)}
    ELSE (DOMAIN last.before.files \ SetOf(last.removed_files))
            \cup SetOf(last.new_files) \cup SetOf(last.updated_files)

\* the call was given a chunk of a file that has no file row
OrphanGiven ==
    /\ Replaced \/ Applied
    /\ \E i \in 1..Len(last.chunks) : last.chunks[i].file_path \notin FileRowsAtInsert

\* C36: in every committed state every chunk row names an existing file row
\* and no two chunk rows have the same id; a replace_index or
\* apply_file_updates call given a chunk whose file has no file row raises
\* and leaves the database as it was.
C36_NoOrphanChunks ==
    /\ \A i \in 1..Len(db.chunks) : db.chunks[i].file_path \in DOMAIN db.files
    /\ \A i, j \in 1..Len(db.chunks) : db.chunks[i].id = db.chunks[j].id => i = j
    /\ OrphanGiven => last.error # "" /\ db = last.before

\* an apply_file_updates call that removes a file and is given a chunk of
\* it, on a store that holds chunks, with as many vectors as chunks
C36_Witness ==
    /\ Applied
    /\ OrphanGiven
    /\ Len(last.chunks) = Len(last.embeddings)
    /\ last.error # ""
    /\ db.chunks # <<>>

---------------------------------------------------------------------------
(* Claims about incremental indexing and full rebuilds (checked under     *)
(* SpecEdit)                                                              *)

\* the call returned without a full rebuild: it patched the store or found
\* the index current
IndexedWithoutRebuild == Indexed /\ last.error = "" /\ ~last.plan.full_rebuild

\* the store a forced full rebuild of the directory as it is would leave
Rebuilt ==
    IndexCall(db, DirOf(disk, last.path), last.path, last.cfg, TRUE, 1, "answers").db

\* two stores hold the same file rows and the same set of chunk rows
SameRows(a, b) == a.files = b.files /\ SetOf(a.chunks) = SetOf(b.chunks)

\* the chunks stored before the call for every file the plan leaves alone
\* are the chunks of the file as it is
UnchangedFilesCurrent ==
    \A p \in UnchangedSet : SetOf(RowsOf(last.before, p)) = SetOf(RowsOf(Rebuilt, p))

\* C37 as stated: after an index call that returned without a full rebuild
\* the store holds the file rows and the chunk rows a forced full rebuild
\* of the same directory would produce.
C37_IncrementalEqualsRebuild ==
    IndexedWithoutRebuild => SameRows(db, Rebuilt)

\* C37, amended: after an index call that returned without a full rebuild
\* the store holds the file rows and the chunk rows a forced full rebuild
\* of the same directory would produce, provided no file whose size and
\* modification time are as recorded was rewritten since it was indexed.
C37_IncrementalEqualsRebuildUnlessRewritten ==
    (IndexedWithoutRebuild /\ UnchangedFilesCurrent) => SameRows(db, Rebuilt)

\* an incremental index call chunked one file and left another alone, in a
\* directory where a file was rewritten in place before it was indexed
C37_Witness ==
    /\ IndexSucceeded /\ Incremental
    /\ UnchangedFilesCurrent
    /\ UnchangedSet # {} /\ ChangedSet # {}
    /\ \E p \in DOMAIN disk : "text" \in DOMAIN disk[p]
    /\ SameRows(db, Rebuilt)

---------------------------------------------------------------------------
(* Claims about the configuration of the stored chunks (checked under Spec) *)

\* the store was indexed under another model, chunk size or chunk overlap
\* than the call's
ConfigurationDiffers ==
    /\ DOMAIN last.before.metadata # {}
    /\ \/ last.before.metadata["embedding_model"] # last.cfg.model
       \/ last.before.metadata["chunk_size"] # ToString(last.cfg.chunk_size)
       \/ last.before.metadata["chunk_overlap"] # ToString(last.cfg.chunk_overlap)

\* C38: the store never holds chunks of two configurations.  An index call
\* that indexed records its own model, chunk size and chunk overlap, and
\* when these differ from the recorded ones no chunk row from before the
\* call is left: every row is one the call inserted; any other index call
\* leaves rows and metadata as they were.  So in every state the chunk
\* rows of every file are its chunks under the recorded size and overlap.
C38_OneConfiguration ==
    /\ IndexSucceeded =>
          /\ MatchesRecorded(db, last.path, last.cfg)
          /\ ConfigurationDiffers =>
                /\ Len(db.chunks) = Len(last.texts)
                /\ SetOf(last.processed) = DOMAIN db.files
                /\ \A i \in 1..Len(db.chunks) : db.chunks[i].text = last.texts[i]
    /\ (Indexed /\ ~IndexSucceeded) =>
          db.metadata = last.before.metadata /\ db.chunks = last.before.chunks
    /\ DOMAIN db.metadata # {} =>
          \A p \in DOMAIN db.files :
              RowsOf(db, p) = RowsUnder(p, db.files[p], ParseInt(db.metadata["chunk_size"]),
                                        ParseInt(db.metadata["chunk_overlap"]))

\* an index call under another model over a directory of which one file
\* changed and one did not, on a store that held chunks of both
C38_Witness ==
    /\ IndexSucceeded /\ ~last.force
    /\ DOMAIN last.before.metadata # {}
    /\ last.before.metadata["indexed_root"] = last.path
    /\ last.before.metadata["embedding_model"] # last.cfg.model
    /\ last.before.metadata["chunk_size"] = ToString(last.cfg.chunk_size)
    /\ last.before.metadata["chunk_overlap"] = ToString(last.cfg.chunk_overlap)
    /\ \E p, q \in DOMAIN db.files \cap DOMAIN last.before.files :
          /\ db.files[p] = last.before.files[p] /\ RowsOf(last.before, p) # <<>>
          /\ db.files[q] # last.before.files[q]
    /\ Len(db.chunks) = Len(last.texts)

\* the call was one of those that only read: stats, plan_index_update with
\* needs_reindex, search with get_indexed_root, recall without auto_index,
\* or dump
ReadCalled == last.op \in {"stats", "plan", "search", "recall", "dump"}

\* C39: plan_index_update, needs_reindex, search, get_stats and
\* get_indexed_root change no table, and recall with auto_index = False and
\* dump leave files, chunks and metadata as they were, whether they return
\* or raise; neither of the two runs the index.
C39_ReadsLeaveStore ==
    ReadCalled =>
        /\ db = last.before
        /\ last.op \in {"recall", "dump"} => ~Called({"index", "get_indexed_root"})

\* a dump that returned matches from a store whose files have changed on
\* disk since and that was indexed under another configuration
C39_Witness ==
    /\ last.op = "dump"
    /\ last.error = "" /\ last.result # <<>>
    /\ db.metadata["chunk_size"] # ToString(RecallConfig.chunk_size)
    /\ db.files # FilesTable(DiscoverPath(disk, "/r1", IndexIgnorePaths).file_records)
    /\ db = last.before

\* a recall without auto_index whose embedding backend raised
C39_WitnessRecallRaised ==
    /\ last.op = "recall" /\ last.error # "" /\ db.chunks # <<>> /\ db = last.before

---------------------------------------------------------------------------
(* Claims about the divisions of search (checked under SpecSearch) *)

\* the store without the rows whose recorded norm is zero
NonZeroNormOnly ==
    [db EXCEPT !.chunks = SelectSeq(@, LAMBDA row : row.embedding_norm # 0)]

\* C40: search never divides by zero.  Every result is a row whose recorded
\* norm is not zero, returned for a query whose norm is not zero, with the
\* quotient of the dot product by the product of the two norms as score;
\* rows of norm zero are skipped: the results are those of the same search
\* over the store without them.
C40_NoDivisionByZero ==
    Searched =>
        /\ \A i \in 1..Len(last.matches) :
              LET row == db.chunks[RowIndex(last.matches[i].id)]
                  divisor == VectorNorm(last.query) * row.embedding_norm
              IN  /\ row.embedding_norm # 0
                  /\ VectorNorm(last.query) # 0
                  /\ divisor # 0
                  /\ last.matches[i].score.den # 0
                  /\ last.matches[i].score.num * divisor
                        = Dot(row.embedding, last.query) * last.matches[i].score.den
        /\ last.matches = Search(NonZeroNormOnly, last.query, last.limit)

\* a search over a store whose first row has the dimension of the query and
\* norm zero returned the two rows stored after it
C40_Witness ==
    /\ Searched
    /\ Len(db.chunks) = 3
    /\ db.chunks[1].embedding_dim = Len(last.query)
    /\ db.chunks[1].embedding_norm = 0
    /\ Len(last.matches) = 2

=============================================================================
